---- MODULE Spec2Model ----
(***************************************************************************)
(* Turn-driven simulation engine of cli-tower-defense: the tick driver     *)
(* (UpdateGameState), the turn arbitrator (HandleAIDecisions and its two   *)
(* decision-completion goroutines), the economy operations (placeTower,    *)
(* spawnEnemy, spawnWave) of src/engine, and placeTower of the standalone  *)
(* variant in src/main.go.                                                 *)
(*                                                                         *)
(* Numbers with a fractional part are scaled: enemy Speed and              *)
(* DistanceMoved are counted in half cells (1.0 = 2), JSON numbers of a    *)
(* provider decision in tenths (2.5 = 25), time in seconds.                *)
(***************************************************************************)
EXTENDS Integers, Sequences, FiniteSets, TLC

VARIABLES
    Towers,         \* g.Towers: sequence of tower records
    Enemies,        \* g.Enemies: sequence of enemy records
    Resources,      \* g.Resources: role -> int
    Lives,          \* g.Lives: {"chatgpt"} -> int
    Wave,           \* g.Wave
    Score,          \* g.Score: role -> int
    WaveQueue,      \* g.WaveQueue: sequence of enemy kinds
    GameOver,       \* g.GameOver
    Winner,         \* g.Winner ("" until set)
    AIEnabled,      \* g.AIEnabled
    AIThinking,     \* g.AIThinking: role -> BOOLEAN
    CurrentTurn,    \* g.CurrentTurn
    LastDecisions,  \* g.LastDecisions: role -> string
    elapsed,        \* time.Now() - g.LastActionTime, saturating above TurnTimeout
    gpc,            \* role -> position of that role's decision goroutine
    tpc,            \* position of the UI tick handler (model.Update)
    crashed,        \* the process died of an unrecovered panic
    requests,       \* number of provider calls launched so far
    ticks,          \* number of ticks handled so far
    resolvedLog,    \* the roles of the last two resolved turns, oldest first
    lastOp,         \* the operation performed by the last step
    ret,            \* the boolean returned by the last direct operation
    tickRemaining   \* the local slice `remaining` of a tick in progress, else << >>

vars == <<Towers, Enemies, Resources, Lives, Wave, Score, WaveQueue, GameOver,
          Winner, AIEnabled, AIThinking, CurrentTurn, LastDecisions, elapsed,
          gpc, tpc, crashed, requests, ticks, resolvedLog, lastOp, ret, tickRemaining>>

Roles == {"chatgpt", "gemini"}

Other(r) == IF r = "chatgpt" THEN "gemini" ELSE "chatgpt"

(***************************************************************************)
(* Program constants                                                       *)
(***************************************************************************)
Width == 80
Height == 24
MapHeight == Height - 10
MapWidth == Width
InitialResources == 300
InitialLives == 20
MaxWaves == 30
TurnTimeout == 45

Pos(y, x) == [Y |-> y, X |-> x]

min(a, b) == IF a < b THEN a ELSE b

abs(x) == IF x < 0 THEN -x ELSE x

(***************************************************************************)
(* generatePath: entry segment, zigzag columns, exit segment.              *)
(* zigzagHeight is MapHeight / hDiv, the zigzag spans the columns          *)
(* leftBound+1 .. rightBound and skips `skip` columns between two legs.    *)
(***************************************************************************)
RECURSIVE ZigZag(_, _, _, _, _, _, _)
ZigZag(x0, goingDown, path, rightBound, top, bottom, skip) ==
    IF x0 < rightBound
    THEN LET x == x0 + 1
             n == bottom - top + 1
             col == IF goingDown
                    THEN [i \in 1..n |-> Pos(top + i - 1, x)]
                    ELSE [i \in 1..n |-> Pos(bottom - i + 1, x)]
             nx == IF x < rightBound - 10 THEN x + skip ELSE x
         IN  ZigZag(nx, ~goingDown, path \o col, rightBound, top, bottom, skip)
    ELSE path

PathOf(hDiv, widthPct, leftBound, skip) ==
    LET zigzagHeight == MapHeight \div hDiv
        centerY == MapHeight \div 2
        pathWidth == (Width * widthPct) \div 100
        entry == [i \in 1..3 |-> Pos(centerY, 1 + (i - 1))]
        top == centerY - zigzagHeight \div 2
        bottom == centerY + zigzagHeight \div 2
        body == ZigZag(leftBound, TRUE, entry, pathWidth, top, bottom, skip)
        lastPos == body[Len(body)]
    IN  body \o [i \in 1..3 |-> Pos(lastPos.Y, lastPos.X + i)]

generatePath == PathOf(5, 60, 7, 6)

Path == generatePath

LastIndex == Len(Path) - 1

\* Path[i] of the source, whose indices start at 0
PathAt(i) == Path[i + 1]

\* mutant: the column of a path cell is compared with the row
OnPathRowTwice(y, x) == \E i \in 1..Len(Path) : Path[i].Y = y /\ Path[i].X = y

OnPath(y, x) == \E i \in 1..Len(Path) : Path[i].Y = y /\ Path[i].X = x

(***************************************************************************)
(* Entity model                                                            *)
(***************************************************************************)
TowerKinds == {"basic", "splash", "sniper"}

EnemyKinds == {"basic", "fast", "tank"}

\* mutant: the sniper is priced like the splash tower
towerCostsSniperCheap(k) ==
    CASE k = "basic" -> 100 [] k = "splash" -> 200 [] k = "sniper" -> 200

towerCosts(k) == CASE k = "basic" -> 100 [] k = "splash" -> 200 [] k = "sniper" -> 250

enemyCosts(k) == CASE k = "basic" -> 20 [] k = "fast" -> 30 [] k = "tank" -> 50

NewTower(y, x, towerType) ==
    LET damage == CASE towerType = "basic" -> 15 [] towerType = "sniper" -> 50
                    [] towerType = "splash" -> 10
        range == CASE towerType = "basic" -> 5 [] towerType = "sniper" -> 12
                   [] towerType = "splash" -> 3
        maxCD == CASE towerType = "basic" -> 5 [] towerType = "sniper" -> 15
                   [] towerType = "splash" -> 3
    IN  [Pos |-> Pos(y, x), Health |-> 100, Damage |-> damage, Cooldown |-> 0,
         MaxCD |-> maxCD, TowerType |-> towerType, Range |-> range,
         Cost |-> towerCosts(towerType), Strategy |-> "nearest"]

\* Speed in half cells per tick: 1.0 -> 2, 2.0 -> 4, 0.5 -> 1
NewEnemy(y, x, enemyType) ==
    LET health == CASE enemyType = "basic" -> 100 [] enemyType = "fast" -> 50
                    [] enemyType = "tank" -> 300
        speed == CASE enemyType = "basic" -> 2 [] enemyType = "fast" -> 4
                   [] enemyType = "tank" -> 1
        reward == CASE enemyType = "basic" -> 20 [] enemyType = "fast" -> 15
                    [] enemyType = "tank" -> 50
    IN  [Pos |-> Pos(y, x), Health |-> health, EnemyType |-> enemyType,
         Speed |-> speed, Reward |-> reward, DistanceMoved |-> 0, PathIndex |-> 0]

CanAttack(t) == t.Cooldown <= 0

\* squared Euclidean distance; math.Sqrt is monotone, so comparing squares
\* compares the distances of the source
Dist2(p, q) == (p.Y - q.Y) * (p.Y - q.Y) + (p.X - q.X) * (p.X - q.X)

Swap(ts, i, j) == [ts EXCEPT ![i] = ts[j], ![j] = ts[i]]

RECURSIVE SortInner(_, _, _)
SortInner(ts, i, j) ==
    IF j > Len(ts) THEN ts
    ELSE SortInner(IF ts[i].distance > ts[j].distance THEN Swap(ts, i, j) ELSE ts,
                   i, j + 1)

RECURSIVE SortTargets(_, _)
\* mutant: the targets stay in collection order
SortTargetsUnsorted(ts, i) == ts

SortTargets(ts, i) ==
    IF i >= Len(ts) THEN ts ELSE SortTargets(SortInner(ts, i, i + 1), i + 1)

RECURSIVE Damage(_, _, _, _)
\* subtracts dmg from the health of the first `limit` targets
Damage(es, ts, limit, dmg) ==
    IF limit = 0 THEN es
    ELSE LET k == ts[limit].enemy
         IN  Damage([es EXCEPT ![k].Health = @ - dmg], ts, limit - 1, dmg)

\* Tower.Attack: the tower after the call, the enemies after the call and the
\* indices of the enemies that were hit, in hit order
Attack(t, enemies) ==
    LET inRange == SelectSeq([k \in 1..Len(enemies) |-> k],
                       LAMBDA k : Dist2(t.Pos, enemies[k].Pos) <= t.Range * t.Range)
        targets == [n \in 1..Len(inRange) |->
                      LET e == enemies[inRange[n]]
                      IN  [distance |-> CASE t.Strategy = "strongest" -> -e.Health
                                         [] t.Strategy = "fastest" -> -e.Speed
                                         [] OTHER -> Dist2(t.Pos, e.Pos),
                           enemy |-> inRange[n]]]
        sorted == SortTargets(targets, 1)
        limit == IF t.TowerType = "splash" THEN min(3, Len(sorted)) ELSE 1
    IN  IF Len(enemies) = 0 \/ Len(targets) = 0
        THEN [tower |-> t, enemies |-> enemies, hit |-> << >>]
        ELSE [tower |-> [t EXCEPT !.Cooldown = t.MaxCD],
              enemies |-> Damage(enemies, sorted, limit, t.Damage),
              hit |-> [n \in 1..limit |-> sorted[n].enemy]]

(***************************************************************************)
(* The Game aggregate as a record, so that the sequential code of a        *)
(* handler composes as function application.                               *)
(***************************************************************************)
Game ==
    [Towers |-> Towers, Enemies |-> Enemies, Resources |-> Resources,
     Lives |-> Lives, Wave |-> Wave, Score |-> Score, WaveQueue |-> WaveQueue,
     GameOver |-> GameOver, Winner |-> Winner, AIThinking |-> AIThinking,
     CurrentTurn |-> CurrentTurn, LastDecisions |-> LastDecisions]

SetGame(g) ==
    /\ Towers' = g.Towers
    /\ Enemies' = g.Enemies
    /\ Resources' = g.Resources
    /\ Lives' = g.Lives
    /\ Wave' = g.Wave
    /\ Score' = g.Score
    /\ WaveQueue' = g.WaveQueue
    /\ GameOver' = g.GameOver
    /\ Winner' = g.Winner
    /\ AIThinking' = g.AIThinking
    /\ CurrentTurn' = g.CurrentTurn
    /\ LastDecisions' = g.LastDecisions

NewGame ==
    [Towers |-> << >>, Enemies |-> << >>,
     Resources |-> [r \in Roles |-> InitialResources],
     Lives |-> [r \in {"chatgpt"} |-> InitialLives],
     Wave |-> 1, Score |-> [r \in Roles |-> 0], WaveQueue |-> << >>,
     GameOver |-> FALSE, Winner |-> "",
     AIThinking |-> [r \in Roles |-> FALSE], CurrentTurn |-> "chatgpt",
     LastDecisions |-> [r \in Roles |-> "None"]]

(***************************************************************************)
(* Economy and spawner (src/engine/actions.go)                             *)
(***************************************************************************)
TowerAt(towers, y, x) ==
    \E i \in 1..Len(towers) : towers[i].Pos.Y = y /\ towers[i].Pos.X = x

\* mutant: the upper bounds are compared with > instead of >=
InBoundsOffByOne(y, x) == ~(y < 0 \/ y > MapHeight \/ x < 0 \/ x > MapWidth)

InBounds(y, x) == ~(y < 0 \/ y >= MapHeight \/ x < 0 \/ x >= MapWidth)

\* mutant: no check of the defender's resources
placeTowerUnchecked(g, y, x, towerType) ==
    IF towerType \notin TowerKinds THEN [ok |-> FALSE, g |-> g]
    ELSE IF ~InBounds(y, x) THEN [ok |-> FALSE, g |-> g]
    ELSE IF OnPath(y, x) THEN [ok |-> FALSE, g |-> g]
    ELSE IF TowerAt(g.Towers, y, x) THEN [ok |-> FALSE, g |-> g]
    ELSE [ok |-> TRUE,
          g |-> [g EXCEPT !.Towers = Append(@, NewTower(y, x, towerType)),
                          !.Resources["chatgpt"] = @ - towerCosts(towerType)]]

\* mutant: the cost is deducted before the position is validated
placeTowerPaysFirst(g, y, x, towerType) ==
    LET paid == [g EXCEPT !.Resources["chatgpt"] = @ - towerCosts(towerType)]
    IN  IF towerType \notin TowerKinds THEN [ok |-> FALSE, g |-> g]
        ELSE IF g.Resources["chatgpt"] < towerCosts(towerType) THEN [ok |-> FALSE, g |-> g]
        ELSE IF ~InBounds(y, x) THEN [ok |-> FALSE, g |-> paid]
        ELSE IF OnPath(y, x) THEN [ok |-> FALSE, g |-> paid]
        ELSE IF TowerAt(g.Towers, y, x) THEN [ok |-> FALSE, g |-> paid]
        ELSE [ok |-> TRUE,
              g |-> [paid EXCEPT !.Towers = Append(@, NewTower(y, x, towerType))]]

placeTower(g, y, x, towerType) ==
    IF towerType \notin TowerKinds THEN [ok |-> FALSE, g |-> g]
    ELSE IF g.Resources["chatgpt"] < towerCosts(towerType) THEN [ok |-> FALSE, g |-> g]
    ELSE IF ~InBounds(y, x) THEN [ok |-> FALSE, g |-> g]
    ELSE IF OnPath(y, x) THEN [ok |-> FALSE, g |-> g]
    ELSE IF TowerAt(g.Towers, y, x) THEN [ok |-> FALSE, g |-> g]
    ELSE [ok |-> TRUE,
          g |-> [g EXCEPT !.Towers = Append(@, NewTower(y, x, towerType)),
                          !.Resources["chatgpt"] = @ - towerCosts(towerType)]]

\* mutant: the resource check admits a balance five below the cost
spawnEnemyLenient(g, enemyType) ==
    IF enemyType \notin EnemyKinds THEN [ok |-> FALSE, g |-> g]
    ELSE IF g.Resources["gemini"] < enemyCosts(enemyType) - 5 THEN [ok |-> FALSE, g |-> g]
    ELSE [ok |-> TRUE,
          g |-> [g EXCEPT !.Enemies = Append(@, NewEnemy(PathAt(0).Y, PathAt(0).X, enemyType)),
                          !.Resources["gemini"] = @ - enemyCosts(enemyType)]]

spawnEnemy(g, enemyType) ==
    IF enemyType \notin EnemyKinds THEN [ok |-> FALSE, g |-> g]
    ELSE IF g.Resources["gemini"] < enemyCosts(enemyType) THEN [ok |-> FALSE, g |-> g]
    ELSE IF Len(Path) = 0 THEN [ok |-> FALSE, g |-> g]
    ELSE [ok |-> TRUE,
          g |-> [g EXCEPT !.Enemies = Append(@, NewEnemy(PathAt(0).Y, PathAt(0).X, enemyType)),
                          !.Resources["gemini"] = @ - enemyCosts(enemyType)]]

waveCostOfBase(wave) == 40

waveCostOf(wave) == IF 40 + wave * 5 > 200 THEN 200 ELSE 40 + wave * 5

waveKind(wave, i) ==
    IF wave > 15 THEN <<"tank", "fast", "basic">>[(i % 3) + 1]
    ELSE IF wave > 5 THEN <<"fast", "basic", "tank">>[(i % 3) + 1]
    ELSE <<"basic", "fast">>[(i % 2) + 1]

spawnWave(g) ==
    LET waveCost == waveCostOf(g.Wave)
        num == IF 5 + g.Wave > 30 THEN 30 ELSE 5 + g.Wave
    IN  IF g.Resources["gemini"] < waveCost THEN [ok |-> FALSE, g |-> g]
        ELSE [ok |-> TRUE,
              g |-> [g EXCEPT !.WaveQueue = @ \o [n \in 1..num |-> waveKind(g.Wave, n - 1)],
                              !.Resources["gemini"] = @ - waveCost]]

(***************************************************************************)
(* Tick driver (src/engine/actions.go, UpdateGameState)                    *)
(***************************************************************************)
DrainQueueNewest(g) ==
    IF Len(g.WaveQueue) > 0
    THEN [g EXCEPT !.WaveQueue = SubSeq(@, 1, Len(@) - 1),
                   !.Enemies = IF Len(Path) > 0
                               THEN Append(@, NewEnemy(PathAt(0).Y, PathAt(0).X,
                                                       g.WaveQueue[Len(g.WaveQueue)]))
                               ELSE @]
    ELSE g

\* 1. one queued enemy per tick
DrainQueue(g) ==
    IF Len(g.WaveQueue) > 0
    THEN [g EXCEPT !.WaveQueue = Tail(@),
                   !.Enemies = IF Len(Path) > 0
                               THEN Append(@, NewEnemy(PathAt(0).Y, PathAt(0).X,
                                                       Head(g.WaveQueue)))
                               ELSE @]
    ELSE g

RECURSIVE KillReward(_, _, _)
\* the sum of e.Reward over the hit enemies whose health is <= 0
KillReward(enemies, hit, n) ==
    IF n > Len(hit) THEN 0
    ELSE (IF enemies[hit[n]].Health <= 0 THEN enemies[hit[n]].Reward ELSE 0)
         + KillReward(enemies, hit, n + 1)

RECURSIVE TowersAct(_, _)
\* 2. towers act in collection order
TowersAct(g, i) ==
    IF i > Len(g.Towers) THEN g
    ELSE LET t0 == g.Towers[i]
             t1 == IF t0.Cooldown > 0 THEN [t0 EXCEPT !.Cooldown = @ - 1] ELSE t0
         IN  IF CanAttack(t1)
             THEN LET a == Attack(t1, g.Enemies)
                      reward == KillReward(a.enemies, a.hit, 1)
                  IN  TowersAct([g EXCEPT !.Towers[i] = a.tower,
                                          !.Enemies = a.enemies,
                                          !.Score["chatgpt"] = @ + reward,
                                          !.Resources["chatgpt"] = @ + reward],
                                i + 1)
             ELSE TowersAct([g EXCEPT !.Towers[i] = t1], i + 1)

RECURSIVE Advance(_)
\* mutant: at most one cell is walked in a tick
AdvanceOneCell(e) ==
    IF e.DistanceMoved >= 2 /\ e.PathIndex < Len(Path) - 1
    THEN [e EXCEPT !.PathIndex = @ + 1, !.DistanceMoved = @ - 2,
                   !.Pos = PathAt(e.PathIndex + 1)]
    ELSE e

\* advance along the path while distance permits (1.0 = 2 half cells)
Advance(e) ==
    IF e.DistanceMoved >= 2 /\ e.PathIndex < Len(Path) - 1
    THEN Advance([e EXCEPT !.PathIndex = @ + 1, !.DistanceMoved = @ - 2,
                           !.Pos = PathAt(e.PathIndex + 1)])
    ELSE e

\* mutant: the game goes on with no life left
LeakBelowZero(g) ==
    LET g1 == [g EXCEPT !.Lives["chatgpt"] = @ - 1]
    IN  IF g1.Lives["chatgpt"] < 0
        THEN [g1 EXCEPT !.GameOver = TRUE, !.Winner = "gemini"]
        ELSE g1

\* the effect of one enemy reaching the end of the path
Leak(g) ==
    LET g1 == [g EXCEPT !.Lives["chatgpt"] = @ - 1]
    IN  IF g1.Lives["chatgpt"] <= 0
        THEN [g1 EXCEPT !.GameOver = TRUE, !.Winner = "gemini"]
        ELSE g1

RECURSIVE MoveEnemiesDropRemainder(_, _, _)
\* mutant: the distance left over after the walk is dropped
MoveEnemiesDropRemainder(g, i, remaining) ==
    IF i > Len(g.Enemies) THEN [g EXCEPT !.Enemies = remaining]
    ELSE LET e == g.Enemies[i]
             m == [Advance([e EXCEPT !.DistanceMoved = @ + e.Speed])
                      EXCEPT !.DistanceMoved = 0]
         IN  IF e.Health <= 0 THEN MoveEnemiesDropRemainder(g, i + 1, remaining)
             ELSE IF m.PathIndex >= Len(Path) - 1
                  THEN MoveEnemiesDropRemainder(Leak(g), i + 1, remaining)
                  ELSE MoveEnemiesDropRemainder(g, i + 1, Append(remaining, m))

RECURSIVE MoveEnemies(_, _, _)
\* 3. move enemies and collect survivors
MoveEnemies(g, i, remaining) ==
    IF i > Len(g.Enemies) THEN [g EXCEPT !.Enemies = remaining]
    ELSE LET e == g.Enemies[i]
             m == Advance([e EXCEPT !.DistanceMoved = @ + e.Speed])
         IN  IF e.Health <= 0 THEN MoveEnemies(g, i + 1, remaining)
             ELSE IF m.PathIndex >= Len(Path) - 1
                  THEN MoveEnemies(Leak(g), i + 1, remaining)
                  ELSE MoveEnemies(g, i + 1, Append(remaining, m))

\* mutant: a cleared field pays the wave bonus of the stand-alone loop
CheckVictoryPaysBonus(g) ==
    IF g.Lives["chatgpt"] > 0 /\ Len(g.Enemies) = 0 /\ Len(g.WaveQueue) = 0
    THEN IF g.Wave >= MaxWaves
         THEN [g EXCEPT !.GameOver = TRUE, !.Winner = "chatgpt"]
         ELSE [g EXCEPT !.Resources["gemini"] = @ + 50]
    ELSE g

\* 4. victory condition
CheckVictory(g) ==
    IF g.Lives["chatgpt"] > 0 /\ Len(g.Enemies) = 0 /\ Len(g.WaveQueue) = 0
       /\ g.Wave >= MaxWaves
    THEN [g EXCEPT !.GameOver = TRUE, !.Winner = "chatgpt"]
    ELSE g

\* mutant: the enemies move before the towers act
UpdateGameStateMoveFirst(g) ==
    IF g.GameOver THEN g
    ELSE CheckVictory(TowersAct(MoveEnemies(DrainQueue(g), 1, << >>), 1))

UpdateGameState(g) ==
    IF g.GameOver THEN g
    ELSE CheckVictory(MoveEnemies(TowersAct(DrainQueue(g), 1), 1, << >>))

(***************************************************************************)
(* Turn arbitrator (src/engine/core.go, HandleAIDecisions)                 *)
(*                                                                         *)
(* A provider decision is a record.  A string field that is missing or is  *)
(* not a string reads as "" (failed type assertion).  position is          *)
(* [present, elems]: present is whether the field is a JSON array, elems   *)
(* its elements, each [num, v] with num = "is a float64" and v the number  *)
(* in tenths.                                                              *)
(***************************************************************************)
\* mutant: the guard joins the two flags with "and"
AnyThinkingBoth(th) == th["chatgpt"] /\ th["gemini"]

AnyThinking(th) == th["chatgpt"] \/ th["gemini"]

TimedOut(e) == e > TurnTimeout

\* int(f) of a float64 given in tenths: truncation toward zero
TruncToInt(v) == IF v >= 0 THEN v \div 10 ELSE -((-v) \div 10)

goodPositions ==
    << <<2, 2>>, <<2, Width - 3>>,
       <<MapHeight - 3, 2>>, <<MapHeight - 3, Width - 3>>,
       <<MapHeight \div 4, Width \div 4>>,
       <<MapHeight \div 4, (3 * Width) \div 4>>,
       <<(3 * MapHeight) \div 4, Width \div 4>>,
       <<(3 * MapHeight) \div 4, (3 * Width) \div 4>> >>

\* the turn is handed to `next`; the goroutine then pauses before it clears
\* its thinking flag
SwitchTurn(g, role, text) ==
    [g EXCEPT !.LastDecisions[role] = text, !.CurrentTurn = Other(role)]

\* the early return of the downgrade branch: turn switched and flag cleared
SaveForNextTurn(g, role) ==
    [g EXCEPT !.LastDecisions[role] = "Insufficient resources - saving for next turn",
              !.CurrentTurn = Other(role),
              !.AIThinking[role] = FALSE]

DowngradeTowerToBasic(res, towerType) ==
    LET cost == IF towerType \in TowerKinds THEN towerCosts(towerType) ELSE 100
    IN  IF res < cost
        THEN IF res >= 100 THEN "basic" ELSE ""
        ELSE towerType

\* the tower kind attempted for a place decision; "" when none is affordable
DowngradeTower(res, towerType) ==
    LET cost == IF towerType \in TowerKinds THEN towerCosts(towerType) ELSE 100
    IN  IF res < cost
        THEN IF res >= 200 THEN "splash"
             ELSE IF res >= 100 THEN "basic"
             ELSE ""
        ELSE towerType

\* fmt.Sprintf("Placed %s tower", towerType)
PlacedText(k) ==
    CASE k = "basic" -> "Placed basic tower"
      [] k = "splash" -> "Placed splash tower"
      [] k = "sniper" -> "Placed sniper tower"

\* placement with the fallback to a basic tower at the same cell
PlaceWithFallback(g, y, x, towerType) ==
    LET p1 == placeTower(g, y, x, towerType)
        p2 == placeTower(g, y, x, "basic")
    IN  IF p1.ok THEN SwitchTurn(p1.g, "chatgpt", "Placed tower")
        ELSE IF towerType # "basic"
             THEN IF p2.ok
                  THEN SwitchTurn(p2.g, "chatgpt", "Placed basic tower as fallback")
                  ELSE SwitchTurn(g, "chatgpt", "Failed to place any tower")
             ELSE SwitchTurn(g, "chatgpt", "Failed to place basic tower")

SavePositionCorner(n) == <<2, 2>>

\* the strategic position of a converted save, by number of towers
SavePosition(n) ==
    IF n = 1 THEN <<2, Width - 3>>
    ELSE IF n = 2 THEN <<MapHeight - 3, 2>>
    ELSE IF n = 3 THEN <<MapHeight - 3, Width - 3>>
    ELSE <<MapHeight \div 2, Width \div 2>>

\* the defender goroutine after GetTowerDecision returned d without error;
\* rnd is the value of g.rng.Intn(len(goodPositions)).
\* out: "pause" (turn switched, flag still set), "return" (early return),
\* "panic" (failed type assertion on a position element)
DefenderDecision(g, d, rnd) ==
    IF d.action = "place"
    THEN LET towerType0 == IF d.tower_type = "" THEN "basic" ELSE d.tower_type
             towerType == DowngradeTower(g.Resources["chatgpt"], towerType0)
             given == d.position.present /\ Len(d.position.elems) >= 2
             y == IF given THEN TruncToInt(d.position.elems[1].v)
                  ELSE goodPositions[rnd + 1][1]
             x == IF given THEN TruncToInt(d.position.elems[2].v)
                  ELSE goodPositions[rnd + 1][2]
         IN  IF towerType = ""
             THEN [g |-> SaveForNextTurn(g, "chatgpt"), out |-> "return"]
             ELSE IF given /\ ~(d.position.elems[1].num /\ d.position.elems[2].num)
             THEN [g |-> g, out |-> "panic"]
             ELSE [g |-> PlaceWithFallback(g, y, x, towerType), out |-> "pause"]
    ELSE IF d.action = "save"
    THEN IF Len(g.Towers) >= 5
         THEN [g |-> SwitchTurn(g, "chatgpt", "Saving resources"), out |-> "pause"]
         ELSE LET towerType == IF g.Resources["chatgpt"] >= 250 THEN "sniper"
                               ELSE IF g.Resources["chatgpt"] >= 200 THEN "splash"
                               ELSE "basic"
                  pos == SavePosition(Len(g.Towers))
                  p == placeTower(g, pos[1], pos[2], towerType)
              IN  [g |-> IF p.ok
                         THEN SwitchTurn(p.g, "chatgpt", "Placed tower at strategic position")
                         ELSE SwitchTurn(g, "chatgpt", "Failed to place tower at strategic position"),
                   out |-> "pause"]
    ELSE LET p == placeTower(g, 2, 2, "basic")
         IN  [g |-> IF p.ok
                    THEN SwitchTurn(p.g, "chatgpt", "Placed basic tower (default action)")
                    ELSE SwitchTurn(g, "chatgpt", "Failed to place tower (invalid decision)"),
              out |-> "pause"]

DowngradeEnemyToBasic(res, enemyType) ==
    LET cost == IF enemyType \in EnemyKinds THEN enemyCosts(enemyType) ELSE 20
    IN  IF res < cost
        THEN IF res >= 20 THEN "basic" ELSE ""
        ELSE enemyType

\* the enemy kind attempted for a spawn decision; "" when none is affordable
DowngradeEnemy(res, enemyType) ==
    LET cost == IF enemyType \in EnemyKinds THEN enemyCosts(enemyType) ELSE 20
    IN  IF res < cost
        THEN IF res >= 30 THEN "fast"
             ELSE IF res >= 20 THEN "basic"
             ELSE ""
        ELSE enemyType

\* the attacker goroutine after GetEnemyDecision returned d without error
AttackerDecision(g, d) ==
    IF d.action = "spawn"
    THEN LET enemyType0 == IF d.enemy_type = "" THEN "basic" ELSE d.enemy_type
             enemyType == DowngradeEnemy(g.Resources["gemini"], enemyType0)
             s == spawnEnemy(g, enemyType)
         IN  IF enemyType = ""
             THEN [g |-> SaveForNextTurn(g, "gemini"), out |-> "return"]
             ELSE [g |-> IF s.ok THEN SwitchTurn(s.g, "gemini", "Spawned enemy")
                         ELSE SwitchTurn(g, "gemini", "Failed to spawn enemy"),
                   out |-> "pause"]
    ELSE IF d.action = "wave"
    THEN LET w == spawnWave(g)
             s == spawnEnemy(g, "basic")
         IN  [g |-> IF w.ok THEN SwitchTurn(w.g, "gemini", "Launched wave")
                    ELSE IF g.Resources["gemini"] >= 20
                         THEN IF s.ok
                              THEN SwitchTurn(s.g, "gemini", "Spawned basic enemy (fallback from wave)")
                              ELSE SwitchTurn(g, "gemini", "Failed to spawn fallback enemy")
                         ELSE SwitchTurn(g, "gemini", "Failed to launch wave (not enough resources)"),
              out |-> "pause"]
    ELSE IF d.action = "save"
    THEN IF g.Resources["gemini"] < 30
         THEN [g |-> SwitchTurn(g, "gemini", "Saving resources"), out |-> "pause"]
         ELSE LET enemyType == IF g.Resources["gemini"] >= 50 THEN "tank"
                               ELSE IF g.Resources["gemini"] >= 30 THEN "fast"
                               ELSE "basic"
                  s == spawnEnemy(g, enemyType)
              IN  [g |-> IF s.ok
                         THEN SwitchTurn(s.g, "gemini", "Spawned enemy (converted from save)")
                         ELSE SwitchTurn(g, "gemini", "Failed to spawn enemy (converted from save)"),
                   out |-> "pause"]
    ELSE LET s == spawnEnemy(g, "basic")
         IN  [g |-> IF g.Resources["gemini"] >= 20
                    THEN IF s.ok
                         THEN SwitchTurn(s.g, "gemini", "Spawned basic enemy (default action)")
                         ELSE SwitchTurn(g, "gemini", "Failed to spawn enemy (invalid decision)")
                    ELSE SwitchTurn(g, "gemini", "Invalid decision - not enough resources"),
              out |-> "pause"]

\* mutant: the error branch does not hand the turn over
ApiErrorKeepsTurn(g, role) ==
    [g |-> [g EXCEPT !.LastDecisions[role] = "API error"], out |-> "pause"]

\* the provider call failed
ApiError(g, role) == [g |-> SwitchTurn(g, role, "API error"), out |-> "pause"]

CheapestCostHalved(role) == IF role = "chatgpt" THEN 50 ELSE 10

\* the cheapest action of a role: basic tower, basic enemy
CheapestCost(role) == IF role = "chatgpt" THEN 100 ELSE 20

\* the synchronous part of HandleAIDecisions, called at `e` seconds after
\* g.LastActionTime.  launch: the role whose goroutine is started, or "";
\* stamp: whether g.LastActionTime is set to the current time
HandleAIDecisions(g, enabled, e) ==
    LET role == g.CurrentTurn
    IN  IF ~enabled THEN [g |-> g, launch |-> "", stamp |-> FALSE]
        ELSE IF AnyThinking(g.AIThinking) THEN [g |-> g, launch |-> "", stamp |-> FALSE]
        ELSE IF TimedOut(e)
             THEN [g |-> [g EXCEPT !.GameOver = TRUE, !.Winner = "none"],
                   launch |-> "", stamp |-> FALSE]
        ELSE IF role \in Roles /\ ~g.AIThinking[role]
             THEN IF g.Resources[role] < CheapestCost(role)
                  THEN [g |-> SwitchTurn(g, role,
                                    IF role = "chatgpt"
                                    THEN "Insufficient resources for any tower"
                                    ELSE "Insufficient resources for any enemy"),
                        launch |-> "", stamp |-> TRUE]
                  ELSE [g |-> [g EXCEPT !.AIThinking[role] = TRUE],
                        launch |-> role, stamp |-> TRUE]
        ELSE [g |-> g, launch |-> "", stamp |-> FALSE]

(***************************************************************************)
(* Bounds of the model and the inputs of the environment                   *)
(***************************************************************************)
MaxRequests == 4
MaxTicks == 4

\* seconds that may pass between two steps
Delays == {45, 46}

\* values of g.rng.Intn(len(goodPositions)) that are explored
RngValues == {0, 5}

Num(v) == [num |-> TRUE, v |-> v]

NotNum == [num |-> FALSE, v |-> 0]

\* position fields of a defender decision: absent, too short, not numbers,
\* the free cell (2,2) given as (2.5, 2.9), the path cell (7,1), (14,0)
\* below the grid, and (-0.5, 2.5), which truncates to the free cell (0,2)
PositionInputs ==
    { [present |-> FALSE, elems |-> << >>],
      [present |-> TRUE, elems |-> <<Num(20)>>],
      [present |-> TRUE, elems |-> <<NotNum, Num(20)>>],
      [present |-> TRUE, elems |-> <<Num(25), Num(29)>>],
      [present |-> TRUE, elems |-> <<Num(70), Num(10)>>],
      [present |-> TRUE, elems |-> <<Num(140), Num(0)>>],
      [present |-> TRUE, elems |-> <<Num(-5), Num(25)>>] }

NoPosition == [present |-> FALSE, elems |-> << >>]

\* what GetTowerDecision can return: (decision, nil) or (nil, err)
TowerDecisions ==
    [err : {FALSE}, action : {"place"}, tower_type : {"basic", "sniper", "", "laser"},
     position : PositionInputs]
    \cup [err : {FALSE}, action : {"save", "none"}, tower_type : {""},
          position : {NoPosition}]
    \cup [err : {TRUE}, action : {""}, tower_type : {""}, position : {NoPosition}]

\* what GetEnemyDecision can return
EnemyDecisions ==
    [err : {FALSE}, action : {"spawn"}, enemy_type : {"basic", "fast", "tank", "", "laser"}]
    \cup [err : {FALSE}, action : {"wave", "save", "none"}, enemy_type : {""}]
    \cup [err : {TRUE}, action : {""}, enemy_type : {""}]

Op(name, y, x, kind) == [name |-> name, y |-> y, x |-> x, kind |-> kind]

NoOp == Op("NewGame", 0, 0, "")

(***************************************************************************)
(* The engine driven by the UI tick handler and the decision goroutines    *)
(***************************************************************************)
Init ==
    /\ Towers = NewGame.Towers
    /\ Enemies = NewGame.Enemies
    /\ Resources = NewGame.Resources
    /\ Lives = NewGame.Lives
    /\ Wave = NewGame.Wave
    /\ Score = NewGame.Score
    /\ WaveQueue = NewGame.WaveQueue
    /\ GameOver = NewGame.GameOver
    /\ Winner = NewGame.Winner
    /\ AIThinking = NewGame.AIThinking
    /\ CurrentTurn = NewGame.CurrentTurn
    /\ LastDecisions = NewGame.LastDecisions
    /\ AIEnabled = TRUE
    /\ elapsed = 0
    /\ gpc = [r \in Roles |-> "idle"]
    /\ tpc = "idle"
    /\ crashed = FALSE
    /\ requests = 0
    /\ ticks = 0
    /\ resolvedLog = << >>
    /\ lastOp = NoOp
    /\ ret = FALSE
    /\ tickRemaining = << >>

\* the roles of the last two resolved turns after `role` resolved one
Resolved(log, role) ==
    IF Len(log) < 2 THEN Append(log, role) ELSE <<log[2], role>>

\* model.Update on a tickMsg, first half: UpdateGameState
TickUpdateUpTo(maxTicks) ==
    /\ ~crashed /\ tpc = "idle" /\ ~GameOver
    /\ ticks < maxTicks
    /\ SetGame(UpdateGameState(Game))
    /\ tpc' = "ai"
    /\ ticks' = ticks + 1
    /\ UNCHANGED <<AIEnabled, elapsed, gpc, crashed, requests, resolvedLog, lastOp, ret,
                   tickRemaining>>

\* model.Update on a tickMsg, second half: HandleAIDecisions
TickAIUpTo(maxRequests) ==
    /\ ~crashed /\ tpc = "ai"
    /\ LET h == HandleAIDecisions(Game, AIEnabled, elapsed)
       IN  /\ h.launch # "" => requests < maxRequests
           /\ SetGame(h.g)
           /\ elapsed' = IF h.stamp THEN 0 ELSE elapsed
           /\ gpc' = IF h.launch # "" THEN [gpc EXCEPT ![h.launch] = "call"] ELSE gpc
           /\ requests' = IF h.launch # "" THEN requests + 1 ELSE requests
           /\ resolvedLog' = IF h.stamp /\ h.launch = ""
                             THEN Resolved(resolvedLog, CurrentTurn)
                             ELSE resolvedLog
    /\ tpc' = "idle"
    /\ UNCHANGED <<AIEnabled, crashed, ticks, lastOp, ret, tickRemaining>>

\* the outcome of a provider call is applied by the role's goroutine
Apply(role, r) ==
    /\ IF r.out = "panic"
       THEN /\ crashed' = TRUE
            /\ UNCHANGED <<Towers, Enemies, Resources, Lives, Wave, Score, WaveQueue,
                           GameOver, Winner, AIThinking, CurrentTurn, LastDecisions,
                           gpc, resolvedLog>>
       ELSE /\ SetGame(r.g)
            /\ gpc' = [gpc EXCEPT ![role] = IF r.out = "pause" THEN "pause" ELSE "idle"]
            /\ resolvedLog' = Resolved(resolvedLog, role)
            /\ UNCHANGED crashed
    /\ UNCHANGED <<AIEnabled, elapsed, tpc, requests, ticks, lastOp, ret, tickRemaining>>

\* GetTowerDecision returns one of `results`
DefenderCompletesWith(results) ==
    /\ ~crashed /\ gpc["chatgpt"] = "call"
    /\ \E d \in results, rnd \in RngValues :
          Apply("chatgpt", IF d.err THEN ApiError(Game, "chatgpt")
                           ELSE DefenderDecision(Game, d, rnd))

\* GetEnemyDecision returns one of `results`
AttackerCompletesWith(results) ==
    /\ ~crashed /\ gpc["gemini"] = "call"
    /\ \E d \in results :
          Apply("gemini", IF d.err THEN ApiError(Game, "gemini")
                          ELSE AttackerDecision(Game, d))

TickUpdate == TickUpdateUpTo(MaxTicks)

TickAI == TickAIUpTo(MaxRequests)

DefenderCompletes == DefenderCompletesWith(TowerDecisions)

AttackerCompletes == AttackerCompletesWith(EnemyDecisions)

GoroutineEndsKeepsFlag(role) ==
    /\ ~crashed /\ gpc[role] = "pause"
    /\ gpc' = [gpc EXCEPT ![role] = "idle"]
    /\ UNCHANGED <<Towers, Enemies, Resources, Lives, Wave, Score, WaveQueue, GameOver,
                   Winner, AIEnabled, AIThinking, CurrentTurn, LastDecisions, elapsed,
                   tpc, crashed, requests, ticks, resolvedLog, lastOp, ret,
                   tickRemaining>>

\* the pause between turns is over: the goroutine clears its flag and ends
GoroutineEnds(role) ==
    /\ ~crashed /\ gpc[role] = "pause"
    /\ AIThinking' = [AIThinking EXCEPT ![role] = FALSE]
    /\ gpc' = [gpc EXCEPT ![role] = "idle"]
    /\ UNCHANGED <<Towers, Enemies, Resources, Lives, Wave, Score, WaveQueue, GameOver,
                   Winner, AIEnabled, CurrentTurn, LastDecisions, elapsed, tpc,
                   crashed, requests, ticks, resolvedLog, lastOp, ret, tickRemaining>>

\* wall-clock time passes
TimePasses ==
    /\ ~crashed /\ ~TimedOut(elapsed)
    /\ \E d \in Delays : elapsed' = min(elapsed + d, TurnTimeout + 1)
    /\ UNCHANGED <<Towers, Enemies, Resources, Lives, Wave, Score, WaveQueue, GameOver,
                   Winner, AIEnabled, AIThinking, CurrentTurn, LastDecisions, gpc, tpc,
                   crashed, requests, ticks, resolvedLog, lastOp, ret, tickRemaining>>

Next ==
    \/ TickUpdate
    \/ TickAI
    \/ DefenderCompletes
    \/ AttackerCompletes
    \/ \E role \in Roles : GoroutineEnds(role)
    \/ TimePasses

Spec == Init /\ [][Next]_vars

(***************************************************************************)
(* The economy operations and the tick called directly, in any order:      *)
(* every interleaving of UpdateGameState with the operations a completion  *)
(* callback performs.                                                      *)
(***************************************************************************)
MaxOpsTicks == 2
MaxEnemies == 1

\* cells offered to placeTower: the free cells (2,2) and (13,79), the path
\* cells (7,1) and (6,8), and (14,0) and (2,-1) outside the grid
PlaceCells == { <<2, 2>>, <<13, 79>>, <<7, 1>>, <<6, 8>>, <<14, 0>>, <<2, -1>> }

PlaceKinds == {"basic", "splash", "sniper", "laser"}

SpawnKinds == {"basic", "fast", "tank", "laser"}

OpsInit ==
    /\ Init

OpsFrame ==
    UNCHANGED <<AIEnabled, elapsed, gpc, tpc, crashed, requests, resolvedLog, tickRemaining>>

PlaceTowerOp ==
    \E c \in PlaceCells, k \in PlaceKinds :
        LET p == placeTower(Game, c[1], c[2], k)
        IN  /\ SetGame(p.g)
            /\ ret' = p.ok
            /\ lastOp' = Op("placeTower", c[1], c[2], k)
            /\ UNCHANGED ticks
            /\ OpsFrame

SpawnEnemyOp ==
    \E k \in SpawnKinds :
        LET s == spawnEnemy(Game, k)
        IN  /\ Len(Enemies) + Len(WaveQueue) < MaxEnemies
            /\ SetGame(s.g)
            /\ ret' = s.ok
            /\ lastOp' = Op("spawnEnemy", 0, 0, k)
            /\ UNCHANGED ticks
            /\ OpsFrame

SpawnWaveOp ==
    LET w == spawnWave(Game)
    IN  /\ Len(Enemies) + Len(WaveQueue) = 0
        /\ SetGame(w.g)
        /\ ret' = w.ok
        /\ lastOp' = Op("spawnWave", 0, 0, "")
        /\ UNCHANGED ticks
        /\ OpsFrame

UpdateOp ==
    /\ ticks < MaxOpsTicks
    /\ SetGame(UpdateGameState(Game))
    /\ ret' = FALSE
    /\ lastOp' = Op("UpdateGameState", 0, 0, "")
    /\ ticks' = ticks + 1
    /\ OpsFrame

OpsNext == PlaceTowerOp \/ SpawnEnemyOp \/ SpawnWaveOp \/ UpdateOp

SpecOps == OpsInit /\ [][OpsNext]_vars

(***************************************************************************)
(* A siege: the engine from NewGame with a defender whose provider gives   *)
(* no usable decision and an attacker that launches waves or spawns fast   *)
(* enemies, each decision returning before the next tick.                  *)
(***************************************************************************)
MaxSiegeTicks == 60

SiegeTowerDecisions ==
    { [err |-> TRUE, action |-> "", tower_type |-> "", position |-> NoPosition] }

SiegeEnemyDecisions == { [err |-> FALSE, action |-> "wave", enemy_type |-> ""] }

SiegeTickUpdate ==
    /\ \A r \in Roles : gpc[r] = "idle"
    /\ TickUpdateUpTo(MaxSiegeTicks)

SiegeTickAI == TickAIUpTo(MaxSiegeTicks)

SiegeNext ==
    \/ SiegeTickUpdate
    \/ SiegeTickAI
    \/ DefenderCompletesWith(SiegeTowerDecisions)
    \/ AttackerCompletesWith(SiegeEnemyDecisions)
    \/ \E role \in Roles : GoroutineEnds(role)

SpecSiege == Init /\ [][SiegeNext]_vars

(***************************************************************************)
(* The standalone variant (src/main.go): placeTower looks for another cell *)
(* when the requested one is not usable.                                   *)
(***************************************************************************)
mainGeneratePath == PathOf(4, 65, 5, 2)

validTypes == {"basic", "splash", "sniper"}

mainTowerCosts(k) == CASE k = "basic" -> 100 [] k = "splash" -> 200 [] k = "sniper" -> 250

MainPath == mainGeneratePath

\* abs(pos.Y-y) < 1 && abs(pos.X-x) < 1 for some path cell
NearPath(y, x) ==
    \E i \in 1..Len(MainPath) : abs(MainPath[i].Y - y) < 1 /\ abs(MainPath[i].X - x) < 1

NearTower(towers, y, x) ==
    \E i \in 1..Len(towers) : abs(towers[i].Pos.Y - y) < 1 /\ abs(towers[i].Pos.X - x) < 1

\* mutant: a candidate cell is not checked against the path
ValidCellIgnoringPath(towers, y, x) ==
    ~NearTower(towers, y, x) /\ ~(y < 0 \/ y >= MapHeight \/ x < 0 \/ x >= MapWidth)

\* the three checks applied to the requested cell and to every candidate
ValidCell(towers, y, x) ==
    /\ ~NearPath(y, x)
    /\ ~NearTower(towers, y, x)
    /\ ~(y < 0 \/ y >= MapHeight \/ x < 0 \/ x >= MapWidth)

strategicPositions ==
    << <<2, 2>>, <<2, MapWidth - 3>>, <<MapHeight - 3, 2>>, <<MapHeight - 3, MapWidth - 3>>,
       <<2, 20>>, <<2, 40>>, <<2, 60>>, <<2, 77>>,
       <<5, 20>>, <<5, 40>>, <<5, 60>>, <<5, 77>>,
       <<15, 20>>, <<15, 40>>, <<15, 60>>, <<15, 77>>,
       <<MapHeight - 3, 20>>, <<MapHeight - 3, 40>>, <<MapHeight - 3, 60>>,
       <<MapHeight - 3, 77>>,
       <<3, 10>>, <<3, 30>>, <<3, 50>>, <<3, 70>>,
       <<7, 10>>, <<7, 30>>, <<7, 50>>, <<7, 70>>,
       <<10, 10>>, <<10, 30>>, <<10, 50>>, <<10, 70>>,
       <<13, 10>>, <<13, 30>>, <<13, 50>>, <<13, 70>> >>

RECURSIVE FirstStrategic(_, _)
\* the first valid strategic position from index n on, or << >>
FirstStrategic(towers, n) ==
    IF n > Len(strategicPositions) THEN << >>
    ELSE IF ValidCell(towers, strategicPositions[n][1], strategicPositions[n][2])
         THEN strategicPositions[n]
         ELSE FirstStrategic(towers, n + 1)

directions == << <<0, 1>>, <<1, 0>>, <<0, -1>>, <<-1, 0>> >>

maxSteps == 24

RECURSIVE Spiral(_, _, _, _, _, _, _)
\* the spiral search around the requested cell: the first valid cell, or << >>
Spiral(towers, y0, x0, steps, dirIdx0, stepSize0, inDir0) ==
    IF ~(steps < maxSteps) THEN << >>
    ELSE LET tryY == y0 + directions[dirIdx0 + 1][1]
             tryX == x0 + directions[dirIdx0 + 1][2]
             turn == inDir0 + 1 = stepSize0
             dirIdx == IF turn THEN (dirIdx0 + 1) % 4 ELSE dirIdx0
             inDir == IF turn THEN 0 ELSE inDir0 + 1
             stepSize == IF turn /\ (dirIdx = 0 \/ dirIdx = 2)
                         THEN stepSize0 + 1 ELSE stepSize0
         IN  IF ValidCell(towers, tryY, tryX) THEN <<tryY, tryX>>
             ELSE Spiral(towers, tryY, tryX, steps + 1, dirIdx, stepSize, inDir)

mainPlaceTower(g, y, x, towerType) ==
    LET strategic == FirstStrategic(g.Towers, 1)
        spiral == Spiral(g.Towers, y, x, 0, 0, 1, 0)
        cell == IF ValidCell(g.Towers, y, x) THEN <<y, x>>
                ELSE IF strategic # << >> THEN strategic
                ELSE spiral
    IN  IF towerType \notin validTypes THEN [ok |-> FALSE, g |-> g]
        ELSE IF g.Resources["chatgpt"] < mainTowerCosts(towerType) THEN [ok |-> FALSE, g |-> g]
        ELSE IF cell = << >> THEN [ok |-> FALSE, g |-> g]
        ELSE [ok |-> TRUE,
              g |-> [g EXCEPT !.Towers = Append(@, NewTower(cell[1], cell[2], towerType)),
                              !.Resources["chatgpt"] = @ - mainTowerCosts(towerType)]]

\* cells offered to the standalone placeTower: the free cell (1,1), the path
\* cells (7,1), (6,6) and (8,50), and (14,0) below the map
MainPlaceCells == { <<1, 1>>, <<7, 1>>, <<6, 6>>, <<8, 50>>, <<14, 0>> }

RECURSIVE Occupy(_, _)
\* basic towers on the valid strategic positions from index n on, in order
Occupy(towers, n) ==
    IF n > Len(strategicPositions) THEN towers
    ELSE IF ValidCell(towers, strategicPositions[n][1], strategicPositions[n][2])
         THEN Occupy(Append(towers, NewTower(strategicPositions[n][1],
                                             strategicPositions[n][2], "basic")), n + 1)
         ELSE Occupy(towers, n + 1)

\* Either a fresh game, or a late game in which earlier relocations have put
\* a basic tower on every usable strategic position and the defender holds
\* 350 resources.
MainInit ==
    /\ \/ /\ Towers = NewGame.Towers
          /\ Resources = NewGame.Resources
          /\ Wave = NewGame.Wave
       \/ /\ Towers = Occupy(<< >>, 1)
          /\ Resources = [NewGame.Resources EXCEPT !["chatgpt"] = 350]
          /\ Wave = MaxWaves - 1
    /\ Enemies = NewGame.Enemies
    /\ Lives = NewGame.Lives
    /\ Score = NewGame.Score
    /\ WaveQueue = NewGame.WaveQueue
    /\ GameOver = NewGame.GameOver
    /\ Winner = NewGame.Winner
    /\ AIThinking = NewGame.AIThinking
    /\ CurrentTurn = NewGame.CurrentTurn
    /\ LastDecisions = NewGame.LastDecisions
    /\ AIEnabled = TRUE
    /\ elapsed = 0
    /\ gpc = [r \in Roles |-> "idle"]
    /\ tpc = "idle"
    /\ crashed = FALSE
    /\ requests = 0
    /\ ticks = 0
    /\ resolvedLog = << >>
    /\ lastOp = NoOp
    /\ ret = FALSE
    /\ tickRemaining = << >>

MainPlaceTowerOp ==
    \E c \in MainPlaceCells, k \in PlaceKinds :
        LET p == mainPlaceTower(Game, c[1], c[2], k)
        IN  /\ SetGame(p.g)
            /\ ret' = p.ok
            /\ lastOp' = Op("main.placeTower", c[1], c[2], k)
            /\ UNCHANGED ticks
            /\ OpsFrame

MainNext == MainPlaceTowerOp

SpecMain == MainInit /\ [][MainNext]_vars

(***************************************************************************)
(* Direct calls on a field handed to one operation.  The field is a game   *)
(* in progress: towers built by placeTower, enemies created by NewEnemy    *)
(* and walked along the path, resources left after earlier purchases.      *)
(***************************************************************************)
FieldInit(towers, enemies, resources, lives) ==
    /\ Towers = towers
    /\ Enemies = enemies
    /\ Resources = resources
    /\ Lives = lives
    /\ Wave = NewGame.Wave
    /\ Score = NewGame.Score
    /\ WaveQueue = NewGame.WaveQueue
    /\ GameOver = NewGame.GameOver
    /\ Winner = NewGame.Winner
    /\ AIThinking = NewGame.AIThinking
    /\ CurrentTurn = NewGame.CurrentTurn
    /\ LastDecisions = NewGame.LastDecisions
    /\ AIEnabled = TRUE
    /\ elapsed = 0
    /\ gpc = [r \in Roles |-> "idle"]
    /\ tpc = "idle"
    /\ crashed = FALSE
    /\ requests = 0
    /\ ticks = 0
    /\ resolvedLog = << >>
    /\ lastOp = NoOp
    /\ ret = FALSE
    /\ tickRemaining = << >>

(***************************************************************************)
(* spawnEnemy called with every kind at the attacker balances that sit on  *)
(* either side of each cost.                                               *)
(***************************************************************************)
MaxSpawned == 3

\* balances 300 - 45*w - 10*m left after w waves and spawns worth 10*m
SpawnBalances == {300, 50, 45, 35, 30, 25, 20, 15, 5, 0}

SpawnInit ==
    \E b \in SpawnBalances :
        FieldInit(NewGame.Towers, NewGame.Enemies,
                  [NewGame.Resources EXCEPT !["gemini"] = b], NewGame.Lives)

SpawnCallOp ==
    \E k \in SpawnKinds :
        LET s == spawnEnemy(Game, k)
        IN  /\ Len(Enemies) < MaxSpawned
            /\ SetGame(s.g)
            /\ ret' = s.ok
            /\ lastOp' = Op("spawnEnemy", 0, 0, k)
            /\ UNCHANGED ticks
            /\ OpsFrame

SpawnNext == SpawnCallOp

SpecSpawn == SpawnInit /\ [][SpawnNext]_vars

(***************************************************************************)
(* Tower.Attack called on a field with one tower that has just been built  *)
(* and enemies that are on their way.                                      *)
(***************************************************************************)
MaxAttackEnemies == 2
MaxAttacks == 2

\* cells next to the entry of the path
AttackCells == { <<4, 1>>, <<9, 9>> }

\* an enemy of a kind as NewEnemy makes it, walked to a path index
EnemyAt(kind, index) ==
    [NewEnemy(PathAt(0).Y, PathAt(0).X, kind) EXCEPT !.PathIndex = index,
                                                      !.Pos = PathAt(index)]

\* a basic enemy moves one cell a tick, a fast one two, a tank one every
\* second tick
EnemyDraws ==
    {EnemyAt("basic", i) : i \in {0, 2, 3, 5}}
    \cup {EnemyAt("fast", i) : i \in {0, 2, 4}}
    \cup {EnemyAt("tank", i) : i \in {1, 3}}

\* enemies are appended when they spawn and never reordered, so an enemy
\* that is at least as fast as a later one is not behind it
SpawnOrder(es) ==
    \A i, j \in 1..Len(es) :
        (i < j /\ es[i].Speed >= es[j].Speed) => es[i].PathIndex >= es[j].PathIndex

RECURSIVE SpentOn(_, _)
SpentOn(es, n) == IF n > Len(es) THEN 0 ELSE enemyCosts(es[n].EnemyType) + SpentOn(es, n + 1)

FieldsOf(maxEnemies) ==
    {es \in UNION {[1..n -> EnemyDraws] : n \in 1..maxEnemies} : SpawnOrder(es)}

AttackInit ==
    \E c \in AttackCells, k \in TowerKinds, es \in FieldsOf(MaxAttackEnemies) :
        FieldInit(<<NewTower(c[1], c[2], k)>>, es,
                  [chatgpt |-> InitialResources - towerCosts(k),
                   gemini |-> InitialResources - SpentOn(es, 1)],
                  NewGame.Lives)

\* t.Attack(g.Enemies) for a tower that can attack
AttackOp ==
    \E i \in 1..Len(Towers) :
        LET a == Attack(Towers[i], Enemies)
        IN  /\ ticks < MaxAttacks
            /\ CanAttack(Towers[i])
            /\ Towers' = [Towers EXCEPT ![i] = a.tower]
            /\ Enemies' = a.enemies
            /\ ret' = (Len(a.hit) > 0)
            /\ lastOp' = Op("Attack", i, 0, Towers[i].TowerType)
            /\ ticks' = ticks + 1
            /\ UNCHANGED <<Resources, Lives, Wave, Score, WaveQueue, GameOver, Winner,
                           AIThinking, CurrentTurn, LastDecisions>>
            /\ OpsFrame

\* the cooldown of a tower runs down by one
CooldownOp ==
    \E i \in 1..Len(Towers) :
        /\ Towers[i].Cooldown > 0
        /\ Towers' = [Towers EXCEPT ![i].Cooldown = @ - 1]
        /\ ret' = FALSE
        /\ lastOp' = Op("cooldown", i, 0, Towers[i].TowerType)
        /\ UNCHANGED <<Enemies, Resources, Lives, Wave, Score, WaveQueue, GameOver, Winner,
                       AIThinking, CurrentTurn, LastDecisions, ticks>>
        /\ OpsFrame

AttackNext == AttackOp \/ CooldownOp

SpecAttack == AttackInit /\ [][AttackNext]_vars

(***************************************************************************)
(* UpdateGameState called on a field late in a game: enemies close to the  *)
(* exit, a tower that has just been built next to it, few lives left.      *)
(* EnemyAt("fast", LastIndex - 1) is the enemy of the scenario "speed 2.0, *)
(* one cell from the path end"; the enemies the engine spawns itself walk  *)
(* an even number of cells at that speed.                                  *)
(***************************************************************************)
MaxTickEnemies == 2
MaxFieldTicks == 2

HurtEnemyAt(kind, index, health) == [EnemyAt(kind, index) EXCEPT !.Health = health]

TickEnemyDraws ==
    { EnemyAt("basic", LastIndex - 1), EnemyAt("basic", LastIndex - 2),
      EnemyAt("fast", LastIndex - 1), EnemyAt("fast", LastIndex - 2),
      EnemyAt("fast", LastIndex - 4),
      EnemyAt("tank", LastIndex - 1),
      [EnemyAt("tank", LastIndex - 1) EXCEPT !.DistanceMoved = 1],
      HurtEnemyAt("basic", LastIndex - 1, 15), HurtEnemyAt("basic", LastIndex - 2, 10) }

\* no tower, or one tower just built at (5,50), above the exit of the path
TickTowerDraws ==
    { << >>, <<NewTower(5, 50, "sniper")>>, <<NewTower(5, 50, "basic")>> }

TickLivesDraws == {InitialLives, 2, 1}

TickFieldsOf(maxEnemies) ==
    {es \in UNION {[1..n -> TickEnemyDraws] : n \in 1..maxEnemies} : SpawnOrder(es)}

RECURSIVE SpentOnTowers(_, _)
SpentOnTowers(ts, n) ==
    IF n > Len(ts) THEN 0 ELSE towerCosts(ts[n].TowerType) + SpentOnTowers(ts, n + 1)

TickInit ==
    \E ts \in TickTowerDraws, es \in TickFieldsOf(MaxTickEnemies), l \in TickLivesDraws :
        FieldInit(ts, es,
                  [chatgpt |-> InitialResources - SpentOnTowers(ts, 1),
                   gemini |-> InitialResources - SpentOn(es, 1)],
                  [chatgpt |-> l])

FieldTick ==
    /\ ticks < MaxFieldTicks
    /\ ~GameOver
    /\ SetGame(UpdateGameState(Game))
    /\ ret' = FALSE
    /\ lastOp' = Op("UpdateGameState", 0, 0, "")
    /\ ticks' = ticks + 1
    /\ OpsFrame

TickNext == FieldTick

SpecTick == TickInit /\ [][TickNext]_vars

(***************************************************************************)
(* The tick and the decision goroutines without the tick being atomic.     *)
(* No lock guards the Game: UpdateGameState ranges over g.Enemies, moving  *)
(* the enemies in place and collecting the survivors in its local slice    *)
(* `remaining`, and only then stores g.Enemies = remaining.  A goroutine   *)
(* may run between the two.                                                *)
(***************************************************************************)
MaxRaceTicks == 4

RECURSIVE MoveLoop(_, _, _)
\* the loop over g.Enemies: the enemies are moved where they stand, the
\* survivors are collected in rem
MoveLoop(g, i, rem) ==
    IF i > Len(g.Enemies) THEN [g |-> g, remaining |-> rem]
    ELSE LET e == g.Enemies[i]
             m == Advance([e EXCEPT !.DistanceMoved = @ + e.Speed])
         IN  IF e.Health <= 0 THEN MoveLoop(g, i + 1, rem)
             ELSE IF m.PathIndex >= Len(Path) - 1
                  THEN MoveLoop([Leak(g) EXCEPT !.Enemies[i] = m], i + 1, rem)
                  ELSE MoveLoop([g EXCEPT !.Enemies[i] = m], i + 1, Append(rem, m))

RaceTowerDecisions ==
    { [err |-> TRUE, action |-> "", tower_type |-> "", position |-> NoPosition] }

RaceEnemyDecisions ==
    [err : {FALSE}, action : {"spawn"}, enemy_type : {"basic", "fast"}]
    \cup [err : {FALSE}, action : {"wave"}, enemy_type : {""}]

\* UpdateGameState up to the end of its loop over the enemies
RaceTickBegin ==
    /\ ~crashed /\ tpc = "idle" /\ ~GameOver
    /\ ticks < MaxRaceTicks
    /\ LET r == MoveLoop(TowersAct(DrainQueue(Game), 1), 1, << >>)
       IN  /\ SetGame(r.g)
           /\ tickRemaining' = r.remaining
    /\ tpc' = "store"
    /\ ticks' = ticks + 1
    /\ UNCHANGED <<AIEnabled, elapsed, gpc, crashed, requests, resolvedLog, lastOp, ret>>

\* g.Enemies = remaining, and the victory check
RaceTickStore ==
    /\ ~crashed /\ tpc = "store"
    /\ SetGame(CheckVictory([Game EXCEPT !.Enemies = tickRemaining]))
    /\ tickRemaining' = << >>
    /\ tpc' = "ai"
    /\ UNCHANGED <<AIEnabled, elapsed, gpc, crashed, requests, ticks, resolvedLog,
                   lastOp, ret>>

RaceTickAI == TickAIUpTo(MaxRaceTicks)

RaceNext ==
    \/ RaceTickBegin
    \/ RaceTickStore
    \/ RaceTickAI
    \/ DefenderCompletesWith(RaceTowerDecisions)
    \/ AttackerCompletesWith(RaceEnemyDecisions)
    \/ \E role \in Roles : GoroutineEnds(role)

SpecRace == Init /\ [][RaceNext]_vars

(***************************************************************************)
(* A skirmish at the last bends of the path, where the columns 43..48 are  *)
(* all path cells: the engine from NewGame with a defender that asks for a *)
(* basic tower at (5,45) or at (9,45), above and below those bends, and an *)
(* attacker that spawns one basic enemy, each decision returning before    *)
(* the next tick.                                                          *)
(***************************************************************************)
MaxSkirmishTicks == 45

SkirmishTowerDecisions ==
    { [err |-> FALSE, action |-> "place", tower_type |-> "basic",
       position |-> [present |-> TRUE, elems |-> <<Num(50), Num(450)>>]],
      [err |-> FALSE, action |-> "place", tower_type |-> "basic",
       position |-> [present |-> TRUE, elems |-> <<Num(90), Num(450)>>]] }

\* the attacker's provider asks for one basic enemy and fails from then on
SkirmishEnemyDecisions ==
    IF Resources["gemini"] = InitialResources
    THEN { [err |-> FALSE, action |-> "spawn", enemy_type |-> "basic"] }
    ELSE { [err |-> TRUE, action |-> "", enemy_type |-> ""] }

SkirmishTickUpdate ==
    /\ \A r \in Roles : gpc[r] = "idle"
    /\ TickUpdateUpTo(MaxSkirmishTicks)

SkirmishTickAI == TickAIUpTo(MaxSkirmishTicks)

SkirmishNext ==
    \/ SkirmishTickUpdate
    \/ SkirmishTickAI
    \/ DefenderCompletesWith(SkirmishTowerDecisions)
    \/ AttackerCompletesWith(SkirmishEnemyDecisions)
    \/ \E role \in Roles : GoroutineEnds(role)

SpecSkirmish == Init /\ [][SkirmishNext]_vars

(***************************************************************************)
(* The engine from NewGame with providers that answer a well-formed        *)
(* decision or fail; lastOp records which call returned and whether it     *)
(* returned an error.                                                      *)
(***************************************************************************)
MaxFaultTicks == 4

MaxFaultRequests == 4

FaultTowerDecisions ==
    { [err |-> FALSE, action |-> "place", tower_type |-> "basic",
       position |-> [present |-> TRUE, elems |-> <<Num(50), Num(20)>>]],
      [err |-> TRUE, action |-> "", tower_type |-> "", position |-> NoPosition] }

FaultEnemyDecisions ==
    { [err |-> FALSE, action |-> "spawn", enemy_type |-> "basic"],
      [err |-> FALSE, action |-> "wave", enemy_type |-> ""],
      [err |-> TRUE, action |-> "", enemy_type |-> ""] }

\* the goroutine of `role` gets (decision, err) back from its provider
FaultCompletes(role) ==
    /\ ~crashed /\ gpc[role] = "call"
    /\ \E d \in (IF role = "chatgpt" THEN FaultTowerDecisions ELSE FaultEnemyDecisions),
          rnd \in RngValues :
          LET r == IF d.err THEN ApiError(Game, role)
                   ELSE IF role = "chatgpt" THEN DefenderDecision(Game, d, rnd)
                   ELSE AttackerDecision(Game, d)
          IN  /\ r.out # "panic"
              /\ SetGame(r.g)
              /\ gpc' = [gpc EXCEPT ![role] = IF r.out = "pause" THEN "pause" ELSE "idle"]
              /\ resolvedLog' = Resolved(resolvedLog, role)
              /\ lastOp' = Op(IF role = "chatgpt" THEN "GetTowerDecision"
                              ELSE "GetEnemyDecision", 0, 0,
                              IF d.err THEN "error" ELSE "nil")
    /\ UNCHANGED <<AIEnabled, elapsed, tpc, crashed, requests, ticks, ret, tickRemaining>>

FaultTickUpdate == TickUpdateUpTo(MaxFaultTicks)

FaultTickAI == TickAIUpTo(MaxFaultRequests)

FaultNext ==
    \/ FaultTickUpdate
    \/ FaultTickAI
    \/ \E role \in Roles : FaultCompletes(role)
    \/ \E role \in Roles : GoroutineEnds(role)

SpecFault == Init /\ [][FaultNext]_vars

(***************************************************************************)
(* Turns taken in the middle of a game.  lastOp records the decision that  *)
(* a provider call returned.                                               *)
(***************************************************************************)
MaxTurnTicks == 1

MaxTurnRequests == 1

\* a game between two turns, the field empty: the towers built, the two
\* purses, the rewards paid and the lives left
Field(towers, defender, attacker, rewards, lives) ==
    [Towers |-> towers, chatgpt |-> defender, gemini |-> attacker,
     rewards |-> rewards, lives |-> lives]

\* the five towers of a defence: the corners and the centre of the map
FiveTowers ==
    <<NewTower(2, 2, "basic"), NewTower(2, Width - 3, "basic"),
      NewTower(MapHeight - 3, 2, "basic"), NewTower(MapHeight - 3, Width - 3, "basic"),
      NewTower(MapHeight \div 2, Width \div 2, "basic")>>

\* games in which every purse is 300 less what was bought plus what was
\* paid for kills, and every enemy bought was killed or has leaked:
\*   a new game; one basic tower; two basic towers;
\*   a sniper, five tanks bought (250), two killed (100), three leaked;
\*   a sniper, five tanks and a basic enemy bought (270), four tanks killed;
\*   a sniper, five tanks and a fast enemy bought (280), three tanks killed;
\*   five basic towers, six waves bought (270), their eighteen basic
\*   enemies killed (360) and their eighteen fast enemies leaked
TurnFields ==
    { Field(<< >>, 300, 300, 0, 20),
      Field(<<NewTower(2, 2, "basic")>>, 200, 300, 0, 20),
      Field(<<NewTower(2, 2, "basic"), NewTower(2, Width - 3, "basic")>>, 100, 300, 0, 20),
      Field(<<NewTower(2, 2, "sniper")>>, 150, 50, 100, 17),
      Field(<<NewTower(2, 2, "sniper")>>, 250, 30, 200, 18),
      Field(<<NewTower(2, 2, "sniper")>>, 200, 20, 150, 17),
      Field(FiveTowers, 160, 30, 360, 2) }

TurnInit ==
    \E f \in TurnFields, r \in Roles :
        /\ Towers = f.Towers
        /\ Enemies = << >>
        /\ Resources = [chatgpt |-> f.chatgpt, gemini |-> f.gemini]
        /\ Lives = [NewGame.Lives EXCEPT !["chatgpt"] = f.lives]
        /\ Wave = NewGame.Wave
        /\ Score = [NewGame.Score EXCEPT !["chatgpt"] = f.rewards]
        /\ WaveQueue = << >>
        /\ GameOver = FALSE
        /\ Winner = NewGame.Winner
        /\ AIThinking = NewGame.AIThinking
        /\ CurrentTurn = r
        /\ LastDecisions = NewGame.LastDecisions
        /\ AIEnabled = TRUE
        /\ elapsed = 0
        /\ gpc = [q \in Roles |-> "idle"]
        /\ tpc = "idle"
        /\ crashed = FALSE
        /\ requests = 0
        /\ ticks = 0
        /\ resolvedLog = << >>
        /\ lastOp = NoOp
        /\ ret = FALSE
        /\ tickRemaining = << >>

\* positions of a place decision: none, a free cell, a path cell, a cell
\* outside the map, and the cell of the first tower
TurnPositions ==
    { NoPosition,
      [present |-> TRUE, elems |-> <<Num(50), Num(20)>>],
      [present |-> TRUE, elems |-> <<Num(70), Num(20)>>],
      [present |-> TRUE, elems |-> <<Num(140), Num(0)>>],
      [present |-> TRUE, elems |-> <<Num(20), Num(20)>>] }

TurnTowerDecisions ==
    [err : {FALSE}, action : {"place"}, tower_type : {"basic", "splash", "sniper", "laser"},
     position : TurnPositions]
    \cup [err : {FALSE}, action : {"save", "none"}, tower_type : {""},
          position : {NoPosition}]

TurnEnemyDecisions ==
    [err : {FALSE}, action : {"spawn"}, enemy_type : {"basic", "fast", "tank", "laser"}]
    \cup [err : {FALSE}, action : {"wave", "save", "none"}, enemy_type : {""}]

\* the decision as the goroutine reads it: action, position (-1 when there
\* is none) and kind
DecisionOp(role, d) ==
    IF role = "chatgpt"
    THEN IF d.position.present
         THEN Op(d.action, TruncToInt(d.position.elems[1].v),
                 TruncToInt(d.position.elems[2].v), d.tower_type)
         ELSE Op(d.action, -1, -1, d.tower_type)
    ELSE Op(d.action, -1, -1, d.enemy_type)

\* the goroutine of `role` gets a decision back and applies it
TurnCompletes(role) ==
    /\ ~crashed /\ gpc[role] = "call"
    /\ \E d \in (IF role = "chatgpt" THEN TurnTowerDecisions ELSE TurnEnemyDecisions),
          rnd \in RngValues :
          LET r == IF role = "chatgpt" THEN DefenderDecision(Game, d, rnd)
                   ELSE AttackerDecision(Game, d)
          IN  /\ r.out # "panic"
              /\ SetGame(r.g)
              /\ gpc' = [gpc EXCEPT ![role] = IF r.out = "pause" THEN "pause" ELSE "idle"]
              /\ resolvedLog' = Resolved(resolvedLog, role)
              /\ lastOp' = DecisionOp(role, d)
    /\ UNCHANGED <<AIEnabled, elapsed, tpc, crashed, requests, ticks, ret, tickRemaining>>

TurnTickUpdate == TickUpdateUpTo(MaxTurnTicks)

TurnTickAI == TickAIUpTo(MaxTurnRequests)

TurnNext ==
    \/ TurnTickUpdate
    \/ TurnTickAI
    \/ \E role \in Roles : TurnCompletes(role)
    \/ \E role \in Roles : GoroutineEnds(role)

SpecTurns == TurnInit /\ [][TurnNext]_vars

(***************************************************************************)
(* The engine from NewGame under the assumption that a provider call that  *)
(* was started returns, with a decision or an error, and that the pause of *)
(* a goroutine ends.                                                       *)
(***************************************************************************)
MaxProgressTicks == 2

MaxProgressRequests == 2

ProgressTickUpdate == TickUpdateUpTo(MaxProgressTicks)

ProgressTickAI == TickAIUpTo(MaxProgressRequests)

ProgressNext ==
    \/ ProgressTickUpdate
    \/ ProgressTickAI
    \/ DefenderCompletes
    \/ AttackerCompletes
    \/ \E role \in Roles : GoroutineEnds(role)

SpecProgress ==
    /\ Init
    /\ [][ProgressNext]_vars
    /\ WF_vars(DefenderCompletes)
    /\ WF_vars(AttackerCompletes)
    /\ \A role \in Roles : WF_vars(GoroutineEnds(role))

(***************************************************************************)
(* spawnWave and the tick driver called on the same games: waves are       *)
(* bought while earlier ones are still queued, and the ticks go on until   *)
(* the queue is empty.                                                     *)
(***************************************************************************)
MaxWaveCalls == 2

MaxWaveTicks == 3

WaveFrame ==
    UNCHANGED <<AIEnabled, elapsed, gpc, tpc, crashed, resolvedLog, tickRemaining>>

\* g.spawnWave()
WaveCallOp ==
    LET w == spawnWave(Game)
    IN  /\ requests < MaxWaveCalls
        /\ SetGame(w.g)
        /\ ret' = w.ok
        /\ lastOp' = Op("spawnWave", 0, 0, "")
        /\ requests' = requests + 1
        /\ UNCHANGED ticks
        /\ WaveFrame

\* g.UpdateGameState() on a tick
WaveTick ==
    /\ ~GameOver
    /\ ticks < MaxWaveTicks \/ Len(WaveQueue) > 0
    /\ SetGame(UpdateGameState(Game))
    /\ ret' = FALSE
    /\ lastOp' = Op("UpdateGameState", 0, 0, "")
    /\ ticks' = IF ticks < MaxWaveTicks THEN ticks + 1 ELSE ticks
    /\ UNCHANGED requests
    /\ WaveFrame

WaveNext == WaveCallOp \/ WaveTick

SpecWave == TurnInit /\ [][WaveNext]_vars

\* a tick does something: the game is not over and the tick counter or the
\* queue will change
WaveTickEnabled == ~GameOver /\ (ticks < MaxWaveTicks \/ Len(WaveQueue) > 0)

\* the ticks keep occurring: weak fairness of WaveTick, with its
\* enabledness written out
SpecWaveLive ==
    /\ TurnInit
    /\ [][WaveNext]_vars
    /\ ([]<>~WaveTickEnabled \/ []<><<WaveTick>>_vars)

(***************************************************************************)
(* Tower.Attack called on a field with one tower that has just been built  *)
(* at (5,45), above the last columns of the zigzag, and basic enemies that *)
(* walk below it.  Several path cells are equally far from the tower.      *)
(***************************************************************************)
MaxVolleyEnemies == 4
MaxVolleys == 1

\* basic enemies on path cells around column 45, in spawn order
VolleyFieldsOf(maxEnemies) ==
    {es \in UNION {[1..n -> {EnemyAt("basic", i) : i \in {20, 21, 22, 26, 28, 32}}]
                      : n \in 1..maxEnemies} :
        \A i, j \in 1..Len(es) : i < j => es[i].PathIndex > es[j].PathIndex}

VolleyInit ==
    \E k \in TowerKinds, es \in VolleyFieldsOf(MaxVolleyEnemies) :
        FieldInit(<<NewTower(5, 45, k)>>, es,
                  [chatgpt |-> InitialResources - towerCosts(k),
                   gemini |-> InitialResources - SpentOn(es, 1)],
                  NewGame.Lives)

VolleyNext ==
    \/ ticks < MaxVolleys /\ AttackOp
    \/ CooldownOp

SpecVolley == VolleyInit /\ [][VolleyNext]_vars

(***************************************************************************)
(* The engine with the key 'a' of the UI, which switches g.AIEnabled.      *)
(* Ticks come every 100 ms and a decision takes seconds at most; the time  *)
(* that counts against TurnTimeout here is the time the user leaves the AI *)
(* switched off.  The game starts as NewGame builds it, or late: no tower, *)
(* one life left, the twentieth enemy two cells before the end of the      *)
(* path.                                                                   *)
(***************************************************************************)
MaxToggleTicks == 3
MaxToggleRequests == 2

ToggleInit ==
    \/ FieldInit(NewGame.Towers, NewGame.Enemies, NewGame.Resources, NewGame.Lives)
    \/ FieldInit(<< >>, <<EnemyAt("basic", LastIndex - 2)>>,
                 [chatgpt |-> InitialResources, gemini |-> 125], [chatgpt |-> 1])

\* case "a": m.game.AIEnabled = !m.game.AIEnabled
ToggleAIEnabled ==
    /\ ~crashed /\ tpc = "idle"
    /\ AIEnabled' = ~AIEnabled
    /\ lastOp' = Op("a", 0, 0, IF AIEnabled THEN "off" ELSE "on")
    /\ UNCHANGED <<Towers, Enemies, Resources, Lives, Wave, Score, WaveQueue, GameOver,
                   Winner, AIThinking, CurrentTurn, LastDecisions, elapsed, gpc, tpc,
                   crashed, requests, ticks, resolvedLog, ret, tickRemaining>>

\* the AI stays switched off until more than TurnTimeout has passed since
\* g.LastActionTime
StaysOff ==
    /\ ~crashed /\ tpc = "idle" /\ ~AIEnabled /\ ~TimedOut(elapsed)
    /\ elapsed' = TurnTimeout + 1
    /\ UNCHANGED <<Towers, Enemies, Resources, Lives, Wave, Score, WaveQueue, GameOver,
                   Winner, AIEnabled, AIThinking, CurrentTurn, LastDecisions, gpc, tpc,
                   crashed, requests, ticks, resolvedLog, lastOp, ret, tickRemaining>>

ToggleNext ==
    \/ TickUpdateUpTo(MaxToggleTicks)
    \/ TickAIUpTo(MaxToggleRequests)
    \/ DefenderCompletesWith(FaultTowerDecisions)
    \/ AttackerCompletesWith(FaultEnemyDecisions)
    \/ \E role \in Roles : GoroutineEnds(role)
    \/ ToggleAIEnabled
    \/ StaysOff

SpecToggle == ToggleInit /\ [][ToggleNext]_vars

(***************************************************************************)
(* getFallbackEnemyDecision called with the attacker's resources and its   *)
(* answer applied with spawnWave or spawnEnemy, at every balance up to     *)
(* MaxFallbackResources and at wave numbers on either side of the cap of   *)
(* the wave cost.                                                          *)
(***************************************************************************)
MaxFallbackResources == 220
MaxFallbackCalls == 2

\* mutant: a tank is chosen from 30 resources on
getFallbackEnemyDecisionEarlyTank(resources) ==
    IF resources >= 200 THEN [err |-> FALSE, action |-> "wave", enemy_type |-> ""]
    ELSE IF resources >= 30 THEN [err |-> FALSE, action |-> "spawn", enemy_type |-> "tank"]
    ELSE IF resources >= 20 THEN [err |-> FALSE, action |-> "spawn", enemy_type |-> "basic"]
    ELSE [err |-> FALSE, action |-> "save", enemy_type |-> ""]

getFallbackEnemyDecision(resources) ==
    IF resources >= 200 THEN [err |-> FALSE, action |-> "wave", enemy_type |-> ""]
    ELSE IF resources >= 50 THEN [err |-> FALSE, action |-> "spawn", enemy_type |-> "tank"]
    ELSE IF resources >= 30 THEN [err |-> FALSE, action |-> "spawn", enemy_type |-> "fast"]
    ELSE IF resources >= 20 THEN [err |-> FALSE, action |-> "spawn", enemy_type |-> "basic"]
    ELSE [err |-> FALSE, action |-> "save", enemy_type |-> ""]

FallbackInit ==
    \E r \in 0..MaxFallbackResources, w \in {1, 6, 16, 30, 32, 40} :
        /\ Towers = NewGame.Towers
        /\ Enemies = NewGame.Enemies
        /\ Resources = [NewGame.Resources EXCEPT !["gemini"] = r]
        /\ Lives = NewGame.Lives
        /\ Wave = w
        /\ Score = NewGame.Score
        /\ WaveQueue = NewGame.WaveQueue
        /\ GameOver = NewGame.GameOver
        /\ Winner = NewGame.Winner
        /\ AIThinking = NewGame.AIThinking
        /\ CurrentTurn = NewGame.CurrentTurn
        /\ LastDecisions = NewGame.LastDecisions
        /\ AIEnabled = TRUE
        /\ elapsed = 0
        /\ gpc = [role \in Roles |-> "idle"]
        /\ tpc = "idle"
        /\ crashed = FALSE
        /\ requests = 0
        /\ ticks = 0
        /\ resolvedLog = << >>
        /\ lastOp = NoOp
        /\ ret = FALSE
        /\ tickRemaining = << >>

\* the fallback decision for the current balance, applied
FallbackOp ==
    LET d == getFallbackEnemyDecision(Resources["gemini"])
        a == CASE d.action = "wave" -> spawnWave(Game)
               [] d.action = "spawn" -> spawnEnemy(Game, d.enemy_type)
               [] OTHER -> [ok |-> TRUE, g |-> Game]
    IN  /\ requests < MaxFallbackCalls
        /\ SetGame(a.g)
        /\ ret' = a.ok
        /\ lastOp' = Op("getFallbackEnemyDecision", 0, 0,
                        IF d.action = "spawn" THEN d.enemy_type ELSE d.action)
        /\ requests' = requests + 1
        /\ UNCHANGED <<AIEnabled, elapsed, gpc, tpc, crashed, ticks, resolvedLog,
                       tickRemaining>>

SpecFallback == FallbackInit /\ [][FallbackOp]_vars

(***************************************************************************)
(* The tick and the defender's goroutine around the kill reward.  No lock  *)
(* guards the Game: `g.Resources["chatgpt"] += e.Reward` in                *)
(* UpdateGameState reads the balance and writes the sum back, and the      *)
(* goroutine's placeTower may run between the two.  The game is under way: *)
(* a sniper tower at (5,50) has killed four fast enemies, the defender     *)
(* holds 110, and a fifth fast enemy walks towards the exit.               *)
(***************************************************************************)
MaxCreditTicks == 3
MaxCreditRequests == 2

CreditInit ==
    \E cd \in 0..2, i \in {LastIndex - 10, LastIndex - 8, LastIndex - 6} :
        /\ Towers = <<[NewTower(5, 50, "sniper") EXCEPT !.Cooldown = cd]>>
        /\ Enemies = <<EnemyAt("fast", i)>>
        /\ Resources = [chatgpt |-> InitialResources - towerCosts("sniper") + 60,
                        gemini |-> InitialResources - 5 * enemyCosts("fast")]
        /\ Lives = NewGame.Lives
        /\ Wave = NewGame.Wave
        /\ Score = [NewGame.Score EXCEPT !["chatgpt"] = 60]
        /\ WaveQueue = NewGame.WaveQueue
        /\ GameOver = NewGame.GameOver
        /\ Winner = NewGame.Winner
        /\ AIThinking = NewGame.AIThinking
        /\ CurrentTurn = NewGame.CurrentTurn
        /\ LastDecisions = NewGame.LastDecisions
        /\ AIEnabled = TRUE
        /\ elapsed = 0
        /\ gpc = [role \in Roles |-> "idle"]
        /\ tpc = "idle"
        /\ crashed = FALSE
        /\ requests = 0
        /\ ticks = 0
        /\ resolvedLog = << >>
        /\ lastOp = NoOp
        /\ ret = FALSE
        /\ tickRemaining = << >>

\* UpdateGameState up to the read of g.Resources["chatgpt"] for a kill
\* reward; tickRemaining holds the sum that is about to be written back
CreditTickLoad ==
    /\ ~crashed /\ tpc = "idle" /\ ~GameOver
    /\ ticks < MaxCreditTicks
    /\ LET g1 == TowersAct(DrainQueue(Game), 1)
       IN  /\ SetGame([g1 EXCEPT !.Resources["chatgpt"] = Resources["chatgpt"]])
           /\ tickRemaining' = IF g1.Resources["chatgpt"] = Resources["chatgpt"]
                               THEN << >>
                               ELSE <<g1.Resources["chatgpt"]>>
    /\ tpc' = "store"
    /\ ticks' = ticks + 1
    /\ UNCHANGED <<AIEnabled, elapsed, gpc, crashed, requests, resolvedLog, lastOp, ret>>

\* the write of the sum, and the rest of UpdateGameState
CreditTickStore ==
    /\ ~crashed /\ tpc = "store"
    /\ LET g2 == IF tickRemaining = << >> THEN Game
                 ELSE [Game EXCEPT !.Resources["chatgpt"] = tickRemaining[1]]
       IN  SetGame(CheckVictory(MoveEnemies(g2, 1, << >>)))
    /\ tickRemaining' = << >>
    /\ tpc' = "ai"
    /\ UNCHANGED <<AIEnabled, elapsed, gpc, crashed, requests, ticks, resolvedLog,
                   lastOp, ret>>

CreditNext ==
    \/ CreditTickLoad
    \/ CreditTickStore
    \/ TickAIUpTo(MaxCreditRequests)
    \/ DefenderCompletesWith(FaultTowerDecisions)
    \/ AttackerCompletesWith(FaultEnemyDecisions)
    \/ \E role \in Roles : GoroutineEnds(role)

SpecCredit == CreditInit /\ [][CreditNext]_vars

(***************************************************************************)
(* A whole game that goes the defender's way: the providers of the         *)
(* skirmish, where the attacker buys one enemy and then only fails, with   *)
(* ticks that never stop coming.  MaxVictoryTicks and MaxVictoryRequests   *)
(* only cap the two counters of the model; the game itself is not cut off. *)
(***************************************************************************)
MaxVictoryTicks == 40
MaxVictoryRequests == 6

\* model.Update on a tickMsg, first half, between two decisions
VictoryTickUpdate ==
    /\ ~crashed /\ tpc = "idle" /\ ~GameOver
    /\ \A r \in Roles : gpc[r] = "idle"
    /\ SetGame(UpdateGameState(Game))
    /\ tpc' = "ai"
    /\ ticks' = min(ticks + 1, MaxVictoryTicks)
    /\ UNCHANGED <<AIEnabled, elapsed, gpc, crashed, requests, resolvedLog, lastOp, ret,
                   tickRemaining>>

\* model.Update on a tickMsg, second half
VictoryTickAI ==
    /\ ~crashed /\ tpc = "ai"
    /\ LET h == HandleAIDecisions(Game, AIEnabled, elapsed)
       IN  /\ SetGame(h.g)
           /\ elapsed' = IF h.stamp THEN 0 ELSE elapsed
           /\ gpc' = IF h.launch # "" THEN [gpc EXCEPT ![h.launch] = "call"] ELSE gpc
           /\ requests' = IF h.launch # "" THEN min(requests + 1, MaxVictoryRequests)
                                           ELSE requests
           /\ resolvedLog' = IF h.stamp /\ h.launch = ""
                             THEN Resolved(resolvedLog, CurrentTurn)
                             ELSE resolvedLog
    /\ tpc' = "idle"
    /\ UNCHANGED <<AIEnabled, crashed, ticks, lastOp, ret, tickRemaining>>

VictoryNext ==
    \/ VictoryTickUpdate
    \/ VictoryTickAI
    \/ DefenderCompletesWith(SkirmishTowerDecisions)
    \/ AttackerCompletesWith(SkirmishEnemyDecisions)
    \/ \E role \in Roles : GoroutineEnds(role)

\* the ticks keep coming until the game is over (weak fairness of the tick,
\* with its enabledness written out), every request is answered and every
\* pause ends
SpecVictory ==
    /\ Init /\ [][VictoryNext]_vars
    /\ ([]<>GameOver \/ []<><<VictoryTickUpdate>>_vars)
    /\ \A role \in Roles : []<>(gpc[role] # "call")
    /\ \A role \in Roles : WF_vars(GoroutineEnds(role))

(***************************************************************************)
(* Properties                                                              *)
(***************************************************************************)
Outstanding(r) == gpc[r] # "idle"

\* C1: the two thinking flags are never both set, and a decision request is
\* started only when no flag is set and no goroutine is still running.
C1_MutualExclusion ==
    /\ [](~(AIThinking["chatgpt"] /\ AIThinking["gemini"]))
    /\ [][\A r \in Roles :
            (~AIThinking[r] /\ AIThinking'[r]) =>
                \A q \in Roles : ~AIThinking[q] /\ ~Outstanding(q)]_vars

\* the attacker's request runs after the defender's goroutine has ended
C1_Witness ==
    /\ AIThinking["gemini"] /\ gpc["gemini"] = "call"
    /\ ~AIThinking["chatgpt"] /\ ~Outstanding("chatgpt")
    /\ requests >= 2

\* C2: resolved turns alternate, starting with the defender: the turn always
\* belongs to the role that did not resolve the last turn, and the last two
\* resolutions are by different roles.
C2_TurnAlternation ==
    /\ Len(resolvedLog) = 0 => CurrentTurn = "chatgpt"
    /\ Len(resolvedLog) = 1 => resolvedLog[1] = "chatgpt"
    /\ Len(resolvedLog) >= 1 => CurrentTurn = Other(resolvedLog[Len(resolvedLog)])
    /\ Len(resolvedLog) = 2 => resolvedLog[1] # resolvedLog[2]

\* the defender has resolved its second turn, after the attacker's first
C2_Witness == resolvedLog = <<"gemini", "chatgpt">> /\ CurrentTurn = "gemini"

\* C3: a HandleAIDecisions call made while a request has been outstanding
\* for more than TurnTimeout ends the game with winner "none".
C3_TimeoutEndsGame ==
    [][(/\ tpc = "ai" /\ tpc' = "idle"
        /\ \E r \in Roles : AIThinking[r] /\ gpc[r] = "call"
        /\ elapsed > TurnTimeout)
       => (GameOver' /\ Winner' = "none")]_vars

\* C4: resources are never negative.
C4_ResourcesNonNegative == Resources["chatgpt"] >= 0 /\ Resources["gemini"] >= 0

\* a tick has credited a kill to a defender that had spent below the
\* cheapest tower, after the attacker paid for an enemy
C4_Witness ==
    /\ lastOp.name = "UpdateGameState"
    /\ Len(Towers) > 0
    /\ Score["chatgpt"] > 0
    /\ Resources["chatgpt"] < 100
    /\ Resources["gemini"] < InitialResources

\* C5: lives are never negative.
C5_LivesNonNegative == Lives["chatgpt"] >= 0

\* C6: every tower is inside the grid and off the path, and no two towers
\* share a cell.
C6_TowerPlacement ==
    /\ \A i \in 1..Len(Towers) :
          /\ 0 <= Towers[i].Pos.Y /\ Towers[i].Pos.Y < MapHeight
          /\ 0 <= Towers[i].Pos.X /\ Towers[i].Pos.X < MapWidth
          /\ \A n \in 1..Len(Path) : Path[n] # Towers[i].Pos
    /\ \A i, j \in 1..Len(Towers) : i # j => Towers[i].Pos # Towers[j].Pos

\* two towers stand on the map
C6_Witness == Len(Towers) >= 2

\* the cell of the last direct placeTower call
OpCell(op) == Pos(op.y, op.x)

IsPathCell(p) == \E n \in 1..Len(Path) : Path[n] = p

Occupied(towers, p) == \E i \in 1..Len(towers) : towers[i].Pos = p

InGrid(p) == 0 <= p.Y /\ p.Y < 14 /\ 0 <= p.X /\ p.X < 80

\* C7: a placeTower call that returns false leaves the towers and the
\* resources as they were.
C7_RejectedPlaceMutatesNothing ==
    [][(lastOp'.name = "placeTower" /\ ret' = FALSE)
       => (Towers' = Towers /\ Resources' = Resources)]_vars

\* a sniper was refused at a free cell of the grid for lack of resources
C7_Witness ==
    /\ lastOp.name = "placeTower" /\ ret = FALSE
    /\ lastOp.kind = "sniper" /\ Resources["chatgpt"] < 250
    /\ InGrid(OpCell(lastOp)) /\ ~IsPathCell(OpCell(lastOp))
    /\ ~Occupied(Towers, OpCell(lastOp))
    /\ Len(Towers) > 0

PriceList == [basic |-> 100, splash |-> 200, sniper |-> 250]

\* C8: an affordable placement of a known kind at a free cell of the grid
\* returns true, appends one tower of that kind there with cooldown 0, takes
\* exactly the kind's cost from the defender and changes nothing else; on a
\* fresh game placeTower(2,2,"basic") leaves 200 resources and one basic
\* tower at (2,2).
C8_SuccessfulPlacement ==
    [][/\ (/\ lastOp'.name = "placeTower"
           /\ lastOp'.kind \in {"basic", "splash", "sniper"}
           /\ Resources["chatgpt"] >= PriceList[lastOp'.kind]
           /\ InGrid(OpCell(lastOp')) /\ ~IsPathCell(OpCell(lastOp'))
           /\ ~Occupied(Towers, OpCell(lastOp')))
          => (/\ ret' = TRUE
              /\ Len(Towers') = Len(Towers) + 1
              /\ SubSeq(Towers', 1, Len(Towers)) = Towers
              /\ Towers'[Len(Towers')].TowerType = lastOp'.kind
              /\ Towers'[Len(Towers')].Pos = OpCell(lastOp')
              /\ Towers'[Len(Towers')].Cooldown = 0
              /\ Resources' = [Resources EXCEPT !["chatgpt"] = @ - PriceList[lastOp'.kind]]
              /\ UNCHANGED <<Enemies, Lives, Wave, Score, WaveQueue, GameOver, Winner,
                             AIThinking, CurrentTurn, LastDecisions>>)
       /\ (/\ Towers = << >> /\ Resources["chatgpt"] = 300
           /\ lastOp' = Op("placeTower", 2, 2, "basic"))
          => (/\ ret' = TRUE
              /\ Resources'["chatgpt"] = 200
              /\ Len(Towers') = 1
              /\ Towers'[1].TowerType = "basic"
              /\ Towers'[1].Pos = Pos(2, 2))]_vars

\* placeTower(2,2,"basic") has succeeded on a fresh game
C8_Witness ==
    /\ lastOp = Op("placeTower", 2, 2, "basic") /\ ret = TRUE
    /\ Len(Towers) = 1 /\ Towers[1].TowerType = "basic" /\ Towers[1].Pos = Pos(2, 2)
    /\ Resources["chatgpt"] = 200

\* C9: a placeTower call at a path cell returns false and leaves the
\* defender's resources and the towers unchanged.
C9_PathCellRejected ==
    [][(lastOp'.name = "placeTower" /\ IsPathCell(OpCell(lastOp')))
       => (ret' = FALSE /\ Towers' = Towers /\ Resources' = Resources)]_vars

\* a basic tower the defender could pay was refused at a path cell
C9_Witness ==
    /\ lastOp.name = "placeTower" /\ IsPathCell(OpCell(lastOp))
    /\ lastOp.kind = "basic" /\ Resources["chatgpt"] >= 100
    /\ ret = FALSE

IsMainPathCell(p) == \E n \in 1..Len(MainPath) : MainPath[n] = p

\* a standalone placeTower call of a known kind the defender can pay, aimed
\* at a path cell
MainPathCellCall(op, resources) ==
    /\ op.name = "main.placeTower"
    /\ IsMainPathCell(OpCell(op))
    /\ op.kind \in {"basic", "splash", "sniper"}
    /\ resources["chatgpt"] >= PriceList[op.kind]

\* p is a cell on which the standalone variant may build
FreeCell(towers, p) == InGrid(p) /\ ~IsMainPathCell(p) /\ ~Occupied(towers, p)

\* the strategic position with index n is the first free one
FirstFreeStrategic(towers, n) ==
    /\ FreeCell(towers, Pos(strategicPositions[n][1], strategicPositions[n][2]))
    /\ \A m \in 1..(n - 1) :
           ~FreeCell(towers, Pos(strategicPositions[m][1], strategicPositions[m][2]))

\* C10 as stated: in the standalone variant a placeTower call at a path cell,
\* of a valid kind and with resources at or above its cost, returns false and
\* leaves the defender's resources unchanged.
C10_PathCellReturnsFalse ==
    [][MainPathCellCall(lastOp', Resources)
       => (ret' = FALSE /\ Resources'["chatgpt"] = Resources["chatgpt"])]_vars

\* C10 amended: in the standalone variant a placeTower call at a path cell,
\* of a valid kind and with resources at or above its cost, never builds on
\* the path: it either returns true, having appended exactly one tower of
\* that kind at another cell, which is in the grid, off the path and was
\* unoccupied, and having taken exactly the kind's cost from the defender, or
\* it returns false and leaves the towers and the resources as they were.
\* While a strategic position is free the call returns true and the tower
\* stands on the first free one.
C10_PathCellRelocates ==
    [][MainPathCellCall(lastOp', Resources)
       => /\ \/ /\ ret' = TRUE
                /\ Len(Towers') = Len(Towers) + 1
                /\ SubSeq(Towers', 1, Len(Towers)) = Towers
                /\ Towers'[Len(Towers')].TowerType = lastOp'.kind
                /\ Towers'[Len(Towers')].Pos # OpCell(lastOp')
                /\ FreeCell(Towers, Towers'[Len(Towers')].Pos)
                /\ Resources' = [Resources EXCEPT
                                   !["chatgpt"] = @ - PriceList[lastOp'.kind]]
             \/ /\ ret' = FALSE
                /\ Towers' = Towers
                /\ Resources' = Resources
          /\ \A n \in 1..Len(strategicPositions) :
                 FirstFreeStrategic(Towers, n)
                 => /\ ret' = TRUE
                    /\ Towers'[Len(Towers')].Pos =
                           Pos(strategicPositions[n][1], strategicPositions[n][2])]_vars

\* on a fresh game a sniper asked for at the path cell (7,1) was built at the
\* strategic position (2,2) and paid for
C10_Witness ==
    /\ lastOp = Op("main.placeTower", 7, 1, "sniper") /\ ret = TRUE
    /\ Len(Towers) = 1 /\ Towers[1].Pos = Pos(2, 2) /\ Towers[1].TowerType = "sniper"
    /\ Resources["chatgpt"] = 50

\* the price and the base health of the enemy kinds
EnemyPriceList == [basic |-> 20, fast |-> 30, tank |-> 50]

EnemyHealthList == [basic |-> 100, fast |-> 50, tank |-> 300]

\* C11: spawnEnemy with a kind other than basic/fast/tank, or with attacker
\* resources below the kind's cost (20/30/50), returns false and leaves the
\* resources and the enemies unchanged; otherwise it returns true, appends
\* exactly one enemy of the kind at Path[0] with PathIndex 0 and the kind's
\* base health, and takes exactly the cost from the attacker.
C11_SpawnEnemyContract ==
    [][lastOp'.name = "spawnEnemy"
       => IF \/ lastOp'.kind \notin {"basic", "fast", "tank"}
             \/ Resources["gemini"] < EnemyPriceList[lastOp'.kind]
          THEN ret' = FALSE /\ Resources' = Resources /\ Enemies' = Enemies
          ELSE /\ ret' = TRUE
               /\ Len(Enemies') = Len(Enemies) + 1
               /\ SubSeq(Enemies', 1, Len(Enemies)) = Enemies
               /\ Enemies'[Len(Enemies')].EnemyType = lastOp'.kind
               /\ Enemies'[Len(Enemies')].Pos = Path[1]
               /\ Enemies'[Len(Enemies')].PathIndex = 0
               /\ Enemies'[Len(Enemies')].Health = EnemyHealthList[lastOp'.kind]
               /\ Resources' = [Resources EXCEPT
                                  !["gemini"] = @ - EnemyPriceList[lastOp'.kind]]]_vars

\* with 25 resources a tank was refused and the field stayed empty
C11_Witness ==
    /\ lastOp = Op("spawnEnemy", 0, 0, "tank") /\ ret = FALSE
    /\ Resources["gemini"] = 25
    /\ Len(Enemies) = 0


SqDist(p, q) == (p.Y - q.Y) * (p.Y - q.Y) + (p.X - q.X) * (p.X - q.X)

\* the indices of the enemies within the range of tower t
Within(t, es) == {k \in 1..Len(es) : SqDist(t.Pos, es[k].Pos) <= t.Range * t.Range}

\* C12: when a tower that is not a splash tower, with the nearest strategy,
\* attacks while some enemy is within its range, exactly one enemy loses
\* exactly the tower's damage, that enemy is one at minimal distance, every
\* other enemy is unchanged and the tower's cooldown becomes MaxCD; a basic
\* tower takes 15 and its cooldown becomes 5.
C12_SingleTargetAttack ==
    [][(/\ lastOp'.name = "Attack"
        /\ Towers[lastOp'.y].TowerType # "splash"
        /\ Towers[lastOp'.y].Strategy = "nearest"
        /\ Within(Towers[lastOp'.y], Enemies) # {})
       => LET t == Towers[lastOp'.y]
              near == Within(t, Enemies)
          IN  /\ Len(Enemies') = Len(Enemies)
              /\ \E k \in near :
                    /\ \A j \in near : SqDist(t.Pos, Enemies[k].Pos)
                                           <= SqDist(t.Pos, Enemies[j].Pos)
                    /\ Enemies' = [Enemies EXCEPT ![k].Health = @ - t.Damage]
              /\ Towers'[lastOp'.y].Cooldown = t.MaxCD
              /\ t.TowerType = "basic"
                 => /\ \E k \in near : Enemies'[k].Health = Enemies[k].Health - 15
                    /\ Towers'[lastOp'.y].Cooldown = 5]_vars

\* a basic tower at (4,1) has attacked the only enemy, a basic one at
\* distance 3 on (7,1): health 85, cooldown 5
C12_Witness ==
    /\ lastOp = Op("Attack", 1, 0, "basic")
    /\ Towers[1].Pos = Pos(4, 1) /\ Towers[1].Cooldown = 5
    /\ Len(Enemies) = 1 /\ Enemies[1].Pos = Pos(7, 1)
    /\ Enemies[1].EnemyType = "basic" /\ Enemies[1].Health = 85


\* the enemies as the towers leave them in the tick that starts now
AfterTowers == TowersAct(DrainQueue(Game), 1).Enemies

\* a live enemy whose speed carries it to the last path index in one tick;
\* Speed and DistanceMoved count half cells
ReachesEnd(e) ==
    e.Health > 0 /\ e.PathIndex + ((e.DistanceMoved + e.Speed) \div 2) >= Len(Path) - 1

\* C13: every live enemy whose path index reaches the last path index during
\* a tick is removed in that tick and costs the defender exactly one life;
\* after a tick no enemy of the collection is at the last path index.
C13_LeakWithinOneTick ==
    [][(lastOp'.name = "UpdateGameState" /\ ~GameOver)
       => LET leaking == {i \in 1..Len(AfterTowers) : ReachesEnd(AfterTowers[i])}
              staying == {i \in 1..Len(AfterTowers) :
                            AfterTowers[i].Health > 0 /\ ~ReachesEnd(AfterTowers[i])}
          IN  /\ Lives'["chatgpt"] = Lives["chatgpt"] - Cardinality(leaking)
              /\ Len(Enemies') = Cardinality(staying)
              /\ \A n \in 1..Len(Enemies') : Enemies'[n].PathIndex < Len(Path) - 1]_vars

\* the first tick on a field without towers whose only enemy was a fast one:
\* the enemy is gone and one life is lost
C13_Witness ==
    /\ lastOp.name = "UpdateGameState" /\ ticks = 1
    /\ Len(Towers) = 0 /\ Resources["gemini"] = InitialResources - 30
    /\ Len(Enemies) = 0
    /\ Lives["chatgpt"] = InitialLives - 1


\* C14: whatever decision the provider returns without error, the completion
\* handler of role r finishes without crashing the process, hands the turn
\* to the other role, and has cleared r's thinking flag when it ends.
C14_BadOutputTolerated ==
    [][\A r \in Roles :
          (gpc[r] = "call" /\ (gpc'[r] # "call" \/ crashed'))
          => /\ ~crashed'
             /\ CurrentTurn' = Other(r)
             /\ gpc'[r] = "idle" => ~AIThinking'[r]]_vars


\* C15: an enemy that is in the collection, alive and short of the last path
\* index, is still in the collection after any step, whichever way the
\* attacker's callback and the tick interleave: no step leaves fewer enemies
\* than were alive and on their way before it.
C15_SpawnedEnemyStays ==
    [][Len(Enemies') >=
           Cardinality({i \in 1..Len(Enemies) :
                           Enemies[i].Health > 0 /\ Enemies[i].PathIndex < Len(Path) - 1})]_vars


\* C16: a tick that leaves the defender with no life ends with GameOver set
\* and the attacker as winner, and the defender is never without lives in a
\* game that is not over.
C16_LossCondition ==
    /\ [](Lives["chatgpt"] <= 0 => GameOver)
    /\ [][(lastOp'.name = "UpdateGameState" /\ ~GameOver /\ Lives'["chatgpt"] <= 0)
          => (GameOver' /\ Winner' = "gemini")]_vars

\* the last life was lost to a single leak: the attacker has won
C16_Witness ==
    /\ lastOp.name = "UpdateGameState"
    /\ Lives["chatgpt"] = 0
    /\ GameOver /\ Winner = "gemini"


\* C17: a HandleAIDecisions call made when the game is over starts no
\* request, sets no thinking flag and changes neither CurrentTurn, the time
\* of the last action nor Winner.
C17_NoOpAfterGameOver ==
    [][(tpc = "ai" /\ tpc' = "idle" /\ GameOver)
       => /\ requests' = requests
          /\ gpc' = gpc
          /\ AIThinking' = AIThinking
          /\ CurrentTurn' = CurrentTurn
          /\ elapsed' = elapsed
          /\ Winner' = Winner]_vars


RECURSIVE RewardOfKilled(_, _, _)
\* the sum of Reward over the enemies from index n on that were alive in
\* `before` and have health <= 0 in `after`
RewardOfKilled(before, after, n) ==
    IF n > Len(before) THEN 0
    ELSE (IF before[n].Health > 0 /\ after[n].Health <= 0 THEN before[n].Reward ELSE 0)
         + RewardOfKilled(before, after, n + 1)

\* C19: a tick pays the defender, in Resources and in Score, the Reward of
\* every enemy whose health the towers bring from above 0 to 0 or below in
\* that tick, once each and nothing more, however many towers attack.
C19_KillRewardOnce ==
    [][(tpc = "idle" /\ ticks' = ticks + 1 /\ ~GameOver)
       => LET paid == RewardOfKilled(DrainQueue(Game).Enemies, AfterTowers, 1)
          IN  /\ Score'["chatgpt"] = Score["chatgpt"] + paid
              /\ Resources'["chatgpt"] = Resources["chatgpt"] + paid]_vars



\* the call of role r has just returned an error
ErrorReturned(r) ==
    /\ gpc[r] = "call"
    /\ lastOp'.kind = "error"
    /\ lastOp'.name = IF r = "chatgpt" THEN "GetTowerDecision" ELSE "GetEnemyDecision"
    /\ gpc'[r] # "call"

\* C20: when the decision call of role r returns an error the goroutine sets
\* LastDecisions[r] to "API error", gives the turn to the other role and
\* leaves Resources, towers, enemies and WaveQueue as they were; when its
\* pause is over it clears AIThinking[r] and changes nothing else of the game.
C20_ProviderErrorOutcome ==
    [][\A r \in Roles :
          /\ ErrorReturned(r)
             => /\ LastDecisions'[r] = "API error"
                /\ CurrentTurn' = Other(r)
                /\ gpc'[r] = "pause"
                /\ UNCHANGED <<Resources, Towers, Enemies, WaveQueue>>
          /\ (gpc[r] = "pause" /\ gpc'[r] = "idle")
             => /\ ~AIThinking'[r]
                /\ UNCHANGED <<Resources, Towers, Enemies, WaveQueue, CurrentTurn,
                               LastDecisions>>]_vars

\* the attacker's call failed after the defender had placed a tower and the
\* attacker's goroutine has ended: the turn is the defender's again
C20_Witness ==
    /\ lastOp = Op("GetEnemyDecision", 0, 0, "error")
    /\ LastDecisions["gemini"] = "API error"
    /\ CurrentTurn = "chatgpt"
    /\ gpc["gemini"] = "idle" /\ ~AIThinking["gemini"]
    /\ Len(Towers) = 1 /\ Resources["gemini"] = InitialResources


\* HandleAIDecisions is called on the turn of a role that cannot pay for its
\* cheapest action, with no thinking flag set
ShortCircuitCall ==
    /\ tpc = "ai" /\ tpc' = "idle"
    /\ AIEnabled
    /\ \A r \in Roles : ~AIThinking[r]
    /\ Resources[CurrentTurn] < (IF CurrentTurn = "chatgpt" THEN 100 ELSE 20)

\* what the short-circuit does: no request, turn switched, LastActionTime
\* refreshed, resources and collections untouched
ShortCircuitEffect ==
    /\ \A r \in Roles : ~AIThinking'[r]
    /\ gpc' = gpc /\ requests' = requests
    /\ CurrentTurn' = Other(CurrentTurn)
    /\ elapsed' = 0
    /\ UNCHANGED <<Resources, Towers, Enemies, WaveQueue>>

DefenderApplies(action) ==
    /\ gpc["chatgpt"] = "call" /\ gpc'["chatgpt"] # "call"
    /\ lastOp'.name = action

\* the attacker's goroutine applies, in this step, a decision with `action`
AttackerApplies(action) ==
    /\ gpc["gemini"] = "call" /\ gpc'["gemini"] # "call"
    /\ lastOp'.name = action

\* a cell where a tower may stand: in the grid, off the path, unoccupied
UsableCell(y, x) == InBounds(y, x) /\ ~OnPath(y, x) /\ ~TowerAt(Towers, y, x)

\* the step appended one tower, of kind k at (y, x), and charged its cost
PlacedOne(k, y, x) ==
    /\ Len(Towers') = Len(Towers) + 1
    /\ SubSeq(Towers', 1, Len(Towers)) = Towers
    /\ Towers'[Len(Towers')] = NewTower(y, x, k)
    /\ Resources' = [Resources EXCEPT !["chatgpt"] = @ - towerCosts(k)]

\* the step built nothing and charged nothing
PlacedNone == Towers' = Towers /\ Resources' = Resources

\* C22: a place decision for a kind the defender cannot pay is carried out
\* with splash when the purse holds at least 200 and with basic when it holds
\* 100..199: at a usable requested cell that tower is built and paid, at an
\* unusable one nothing is built; below 100 nothing is built and the turn
\* passes.  No tower built by a defender turn costs more than the purse.
C22_DefenderDowngrade ==
    [][/\ (/\ DefenderApplies("place")
           /\ lastOp'.kind \in TowerKinds
           /\ Resources["chatgpt"] < towerCosts(lastOp'.kind))
          => LET r == Resources["chatgpt"]
                 k == IF r >= 200 THEN "splash" ELSE "basic"
             IN  /\ CurrentTurn' = "gemini"
                 /\ IF r < 100 THEN PlacedNone /\ ~AIThinking'["chatgpt"]
                    ELSE IF lastOp'.y >= 0
                    THEN IF UsableCell(lastOp'.y, lastOp'.x)
                         THEN PlacedOne(k, lastOp'.y, lastOp'.x)
                         ELSE PlacedNone
                    ELSE \/ PlacedNone
                         \/ \E i \in 1..Len(goodPositions) :
                               PlacedOne(k, goodPositions[i][1], goodPositions[i][2])
       /\ (gpc["chatgpt"] = "call" /\ gpc'["chatgpt"] # "call"
           /\ Len(Towers') > Len(Towers))
          => /\ Towers'[Len(Towers')].Cost <= Resources["chatgpt"]
             /\ Resources'["chatgpt"] >= 0]_vars

\* with 200 in the purse a sniper was asked for at the free cell (5,2) and a
\* splash tower stands there, the purse empty
C22_Witness ==
    /\ lastOp = Op("place", 5, 2, "sniper")
    /\ Len(Towers) = 2
    /\ Towers[2] = NewTower(5, 2, "splash")
    /\ Resources["chatgpt"] = 0
    /\ CurrentTurn = "gemini"


\* the step appended one enemy of kind k at the entry of the path and
\* charged its cost
SpawnedOne(k) ==
    /\ Enemies' = Append(Enemies, NewEnemy(PathAt(0).Y, PathAt(0).X, k))
    /\ Resources' = [Resources EXCEPT !["gemini"] = @ - enemyCosts(k)]

\* the step spawned nothing and charged nothing
SpawnedNone == Enemies' = Enemies /\ Resources' = Resources /\ WaveQueue' = WaveQueue

\* C23: a spawn decision for a kind the attacker cannot pay spawns a fast
\* enemy when the purse holds at least 30 and a basic one when it holds
\* 20..29, and that spawn succeeds; below 20 nothing is spawned and the turn
\* passes.
C23_AttackerDowngrade ==
    [][(/\ AttackerApplies("spawn")
        /\ lastOp'.kind \in EnemyKinds
        /\ Resources["gemini"] < enemyCosts(lastOp'.kind))
       => LET r == Resources["gemini"]
          IN  /\ CurrentTurn' = "chatgpt"
              /\ IF r >= 30 THEN SpawnedOne("fast")
                 ELSE IF r >= 20 THEN SpawnedOne("basic")
                 ELSE SpawnedNone /\ ~AIThinking'["gemini"]]_vars

\* with 30 in the purse a tank was asked for and a fast enemy entered the
\* path, leaving nothing
C23_Witness ==
    /\ lastOp = Op("spawn", -1, -1, "tank")
    /\ Len(Enemies) = 1
    /\ Enemies[1].EnemyType = "fast" /\ Enemies[1].PathIndex = 0
    /\ Resources["gemini"] = 0
    /\ CurrentTurn = "chatgpt"


\* the cell a converted save builds on: a corner with one, two or three
\* towers standing, the centre of the map otherwise
SaveCell ==
    CASE Len(Towers) = 1 -> <<2, 77>>
      [] Len(Towers) = 2 -> <<11, 2>>
      [] Len(Towers) = 3 -> <<11, 77>>
      [] OTHER -> <<7, 40>>

\* C24: a save of the defender is honoured when five or more towers stand;
\* with fewer the goroutine builds sniper at >= 250, splash at >= 200, else
\* basic, on the cell chosen by the number of towers if that cell is usable.  A save of the attacker is honoured below 30; from 50 a tank is
\* spawned, from 30 a fast enemy.  The turn switches in every case.
C24_SaveConversion ==
    [][/\ DefenderApplies("save")
          => LET r == Resources["chatgpt"]
                 k == IF r >= 250 THEN "sniper" ELSE IF r >= 200 THEN "splash" ELSE "basic"
             IN  /\ CurrentTurn' = "gemini"
                 /\ IF Len(Towers) >= 5 THEN PlacedNone
                    ELSE IF UsableCell(SaveCell[1], SaveCell[2]) /\ r >= towerCosts(k)
                    THEN PlacedOne(k, SaveCell[1], SaveCell[2])
                    ELSE PlacedNone
       /\ AttackerApplies("save")
          => LET r == Resources["gemini"]
             IN  /\ CurrentTurn' = "chatgpt"
                 /\ IF r < 30 THEN SpawnedNone
                    ELSE IF r >= 50 THEN SpawnedOne("tank")
                    ELSE SpawnedOne("fast")]_vars

\* the attacker's save with 30 in the purse became a fast enemy
C24_Witness ==
    /\ lastOp = Op("save", -1, -1, "")
    /\ CurrentTurn = "chatgpt"
    /\ Len(Enemies) = 1 /\ Enemies[1].EnemyType = "fast"
    /\ Resources["gemini"] = 0


\* corners, quadrant centres and centre of the map
StrategicCells ==
    { <<2, 2>>, <<2, 77>>, <<11, 2>>, <<11, 77>>,
      <<3, 20>>, <<3, 60>>, <<10, 20>>, <<10, 60>>, <<7, 40>> }

\* C25: a place decision whose position is absent, outside the grid, on the
\* path or occupied is carried out on a strategic cell: while a strategic
\* cell is usable the turn builds one tower on such a cell.
C25_PositionRepair ==
    [][(/\ DefenderApplies("place")
        /\ Resources["chatgpt"] >= 100
        /\ lastOp'.y < 0 \/ ~UsableCell(lastOp'.y, lastOp'.x)
        /\ \E c \in StrategicCells : UsableCell(c[1], c[2]))
       => \E c \in StrategicCells, k \in TowerKinds :
             UsableCell(c[1], c[2]) /\ PlacedOne(k, c[1], c[2])]_vars


\* C26: a place decision with an unknown tower kind at a usable cell builds
\* a basic tower there when the defender holds at least 100, and a spawn
\* decision with an unknown enemy kind spawns a basic enemy when the attacker
\* holds at least 20.
C26_UnknownKindRepair ==
    [][/\ (/\ DefenderApplies("place")
           /\ lastOp'.kind \notin TowerKinds
           /\ lastOp'.y >= 0 /\ UsableCell(lastOp'.y, lastOp'.x)
           /\ Resources["chatgpt"] >= 100)
          => PlacedOne("basic", lastOp'.y, lastOp'.x)
       /\ (/\ AttackerApplies("spawn")
           /\ lastOp'.kind \notin EnemyKinds
           /\ Resources["gemini"] >= 20)
          => SpawnedOne("basic")]_vars


\* C27: a thinking flag that is set is eventually cleared, and when it has
\* been cleared the turn belongs to the other role.
C27_TurnProgress ==
    \A r \in Roles : AIThinking[r] ~> (~AIThinking[r] /\ CurrentTurn = Other(r))


\* C28: the step in which a goroutine applies the outcome of its decision
\* sets LastActionTime to the current time, so that no time has elapsed since
\* LastActionTime when the turn has resolved.
C28_TimestampOnCompletion ==
    [][(\E r \in Roles : gpc[r] = "call" /\ gpc'[r] # "call") => elapsed' = 0]_vars


\* C29: spawnWave with fewer resources than min(40 + 5*Wave, 200) returns
\* false and changes nothing; otherwise it returns true, takes exactly that
\* cost from the attacker, appends exactly min(5 + Wave, 30) enemy kinds to
\* the tail of WaveQueue and leaves the enemies, the wave number and
\* everything else of the game as they were.
C29_SpawnWaveEffect ==
    [][lastOp'.name = "spawnWave"
       => LET c == IF 40 + 5 * Wave < 200 THEN 40 + 5 * Wave ELSE 200
              n == IF 5 + Wave < 30 THEN 5 + Wave ELSE 30
          IN  /\ UNCHANGED <<Towers, Enemies, Lives, Wave, Score, GameOver, Winner>>
              /\ IF Resources["gemini"] < c
                 THEN ~ret' /\ UNCHANGED <<Resources, WaveQueue>>
                 ELSE /\ ret'
                      /\ Resources' = [Resources EXCEPT !["gemini"] = @ - c]
                      /\ Len(WaveQueue') = Len(WaveQueue) + n
                      /\ SubSeq(WaveQueue', 1, Len(WaveQueue)) = WaveQueue
                      /\ \A i \in 1..Len(WaveQueue') : WaveQueue'[i] \in EnemyKinds]_vars

\* a second wave was bought while four entries of the first were still
\* queued: ten entries, 210 left, the two spawned enemies on the path
C29_Witness ==
    /\ lastOp.name = "spawnWave" /\ ret
    /\ requests = 2
    /\ Len(WaveQueue) = 10
    /\ Len(Enemies) = 2
    /\ Resources["gemini"] = 210


\* the game after the head of WaveQueue was taken off and an enemy of that
\* kind was put on the first cell of the path
HeadSpawned ==
    [Game EXCEPT !.WaveQueue = Tail(WaveQueue),
                 !.Enemies = Append(Enemies, [Pos |-> PathAt(0), Health |-> EnemyHealthList[Head(WaveQueue)],
                                              EnemyType |-> Head(WaveQueue),
                                              Speed |-> NewEnemy(0, 0, Head(WaveQueue)).Speed,
                                              Reward |-> NewEnemy(0, 0, Head(WaveQueue)).Reward,
                                              DistanceMoved |-> 0, PathIndex |-> 0])]

\* C30: a tick of a game that is not over and has a non-empty WaveQueue
\* removes exactly its head and puts one enemy of that kind on Path[0] with
\* PathIndex 0 before the towers act and the enemies move, and does not
\* change the attacker's resources; while ticks go on a non-empty queue
\* becomes empty unless the game ends.
C30_QueueDrains ==
    /\ [][(lastOp'.name = "UpdateGameState" /\ ~GameOver /\ Len(WaveQueue) > 0)
          => /\ WaveQueue' = Tail(WaveQueue)
             /\ Enemies' = MoveEnemies(TowersAct(HeadSpawned, 1), 1, << >>).Enemies
             /\ Resources'["gemini"] = Resources["gemini"]]_vars
    /\ (Len(WaveQueue) > 0) ~> (Len(WaveQueue) = 0 \/ GameOver)

\* the last entry of a wave, a fast enemy, has just been spawned and has
\* moved two cells; the first enemy of the wave is five cells ahead
C30_Witness ==
    /\ lastOp.name = "UpdateGameState"
    /\ requests = 1 /\ Len(WaveQueue) = 0
    /\ Len(Enemies) = 6
    /\ Enemies[6].EnemyType = "fast" /\ Enemies[6].PathIndex = 2
    /\ Enemies[1].EnemyType = "basic" /\ Enemies[1].PathIndex = 6



RECURSIVE RewardOfLeaking(_, _)
\* the Rewards of the enemies of es[n..] that reach the end of the path
RewardOfLeaking(es, n) ==
    IF n > Len(es) THEN 0
    ELSE (IF ReachesEnd(es[n]) THEN es[n].Reward ELSE 0) + RewardOfLeaking(es, n + 1)

\* C31: a tick in which enemies leak credits the attacker with between half
\* and the whole of the Rewards of the leaked enemies, besides taking one
\* life per leak from the defender and removing the enemies.
C31_LeakReward ==
    [][(lastOp'.name = "UpdateGameState" /\ ~GameOver
        /\ RewardOfLeaking(AfterTowers, 1) > 0)
       => LET gain == Resources'["gemini"] - Resources["gemini"]
          IN  /\ 2 * gain >= RewardOfLeaking(AfterTowers, 1)
              /\ gain <= RewardOfLeaking(AfterTowers, 1)]_vars



\* a move of at most one cell in each axis that is not a standstill
UnitMove(p, q) ==
    /\ abs(q.Y - p.Y) <= 1 /\ abs(q.X - p.X) <= 1
    /\ ~(q.Y = p.Y /\ q.X = p.X)

\* the path the enemies of the field stand on is non-empty and inside the
\* 80x14 grid
PathInsideGrid ==
    /\ Len(Path) > 0
    /\ \A n \in 1..Len(Enemies) : Enemies[n].Pos = PathAt(Enemies[n].PathIndex)
    /\ \A i \in 1..Len(Path) :
          Path[i].Y >= 0 /\ Path[i].Y < MapHeight /\ Path[i].X >= 0 /\ Path[i].X < Width

\* C33: the path of the game is non-empty, lies inside the 80x14 grid, and
\* each of its cells is a unit move away from the cell before it.
C33_PathContiguous ==
    /\ PathInsideGrid
    /\ \A i \in 1..(Len(Path) - 1) : UnitMove(Path[i], Path[i + 1])


\* enemy k ranks before enemy j for tower t in a stable ascending sort of
\* the keys; every tower of the engine has the strategy "nearest"
RanksBefore(t, es, k, j) ==
    \/ SqDist(t.Pos, es[k].Pos) < SqDist(t.Pos, es[j].Pos)
    \/ SqDist(t.Pos, es[k].Pos) = SqDist(t.Pos, es[j].Pos) /\ k < j

\* the first n enemies within range in that ranking
StableTop(t, es, n) ==
    {k \in Within(t, es) :
        Cardinality({j \in Within(t, es) : RanksBefore(t, es, j, k)}) < n}

\* C34: an attack damages the enemies a stable ascending sort of the keys
\* ranks first: the first three for a splash tower with more than three
\* enemies in range, the first one for any other tower.
C34_StableRanking ==
    [][(lastOp'.name = "Attack" /\ Within(Towers[lastOp'.y], Enemies) # {})
       => LET t == Towers[lastOp'.y]
              hit == {k \in 1..Len(Enemies) : Enemies'[k].Health # Enemies[k].Health}
          IN  /\ (t.TowerType = "splash" /\ Cardinality(Within(t, Enemies)) > 3)
                 => hit = StableTop(t, Enemies, 3)
              /\ t.TowerType # "splash" => hit = StableTop(t, Enemies, 1)]_vars

\* the part of C34 about towers that hit one enemy
SingleTargetStable ==
    [][(lastOp'.name = "Attack" /\ Within(Towers[lastOp'.y], Enemies) # {}
        /\ Towers[lastOp'.y].TowerType # "splash")
       => {k \in 1..Len(Enemies) : Enemies'[k].Health # Enemies[k].Health}
             = StableTop(Towers[lastOp'.y], Enemies, 1)]_vars



\* the path cells a live enemy walks in a tick: one per whole unit of
\* distance (two half cells), never past the last index
CellsWalked(e) == min((e.DistanceMoved + e.Speed) \div 2, LastIndex - e.PathIndex)

\* the enemy after it has walked them, keeping the rest of the distance
Walked(e) ==
    [e EXCEPT !.DistanceMoved = e.DistanceMoved + e.Speed - 2 * CellsWalked(e),
              !.PathIndex = e.PathIndex + CellsWalked(e),
              !.Pos = PathAt(e.PathIndex + CellsWalked(e))]

\* C35: a tick adds Speed to the DistanceMoved of every live enemy, walks it
\* min(floor(DistanceMoved), lastIndex - PathIndex) cells, takes one unit of
\* distance per cell and leaves Pos = Path[PathIndex]; an enemy of speed 0.5
\* walks a cell every second tick, one of speed 1.0 a cell and one of speed
\* 2.0 two cells a tick, as far as the last index allows.
C35_FractionalMovement ==
    [][(lastOp'.name = "UpdateGameState" /\ ~GameOver)
       => LET live == SelectSeq(AfterTowers, LAMBDA e : e.Health > 0)
              moved == [n \in 1..Len(live) |-> Walked(live[n])]
          IN  /\ Enemies' = SelectSeq(moved, LAMBDA e : e.PathIndex < LastIndex)
              /\ \A n \in 1..Len(live) :
                    LET e == live[n]
                        room == LastIndex - e.PathIndex
                    IN  CellsWalked(e) =
                            CASE e.Speed = 4 -> min(2, room)
                              [] e.Speed = 2 -> min(1, room)
                              [] e.Speed = 1 -> IF e.DistanceMoved = 1 THEN min(1, room)
                                                                     ELSE 0]_vars

\* after the first tick on a field without towers a tank that stood one cell
\* before the end has half a cell to its credit and has not moved, and a fast
\* enemy that stood four cells before the end stands two cells before it
C35_Witness ==
    /\ lastOp.name = "UpdateGameState" /\ ticks = 1 /\ Len(Towers) = 0
    /\ Len(Enemies) = 2
    /\ Enemies[1].EnemyType = "tank" /\ Enemies[1].PathIndex = LastIndex - 1
    /\ Enemies[1].DistanceMoved = 1
    /\ Enemies[2].EnemyType = "fast" /\ Enemies[2].PathIndex = LastIndex - 2
    /\ Enemies[2].DistanceMoved = 0 /\ Enemies[2].Pos = PathAt(LastIndex - 2)



\* C37: once the game is over the recorded winner never changes, whatever
\* runs afterwards.
C37_WinnerStable ==
    [][GameOver => Winner' = Winner]_vars



\* a step that is one call of HandleAIDecisions by the tick handler
CallOfHandleAIDecisions == tpc = "ai" /\ tpc' = "idle"

\* C38: while AIEnabled is false a call of HandleAIDecisions starts no
\* request and changes nothing, and UpdateGameState goes on moving the
\* enemies; and a call of HandleAIDecisions made after the AI has been
\* switched on again, with no request outstanding, does not end the game,
\* however long the AI was off.
C38_ToggleAndInactivity ==
    [][/\ (CallOfHandleAIDecisions /\ ~AIEnabled)
          => UNCHANGED <<Towers, Enemies, Resources, Lives, Wave, Score, WaveQueue,
                         GameOver, Winner, AIThinking, CurrentTurn, LastDecisions,
                         elapsed, gpc, requests>>
       /\ (tpc = "idle" /\ ticks' = ticks + 1 /\ ~AIEnabled)
          => Enemies' = SelectSeq([n \in 1..Len(AfterTowers) |-> Walked(AfterTowers[n])],
                                  LAMBDA e : e.Health > 0 /\ e.PathIndex < LastIndex)
       /\ (/\ CallOfHandleAIDecisions /\ AIEnabled
           /\ lastOp = Op("a", 0, 0, "on")
           /\ \A r \in Roles : gpc[r] = "idle" /\ ~AIThinking[r])
          => GameOver' = GameOver]_vars

\* the part of C38 about the time the AI is switched off
DisabledAIIsIdle ==
    [][/\ (CallOfHandleAIDecisions /\ ~AIEnabled)
          => UNCHANGED <<Towers, Enemies, Resources, Lives, Wave, Score, WaveQueue,
                         GameOver, Winner, AIThinking, CurrentTurn, LastDecisions,
                         elapsed, gpc, requests>>
       /\ (tpc = "idle" /\ ticks' = ticks + 1 /\ ~AIEnabled)
          => Enemies' = SelectSeq([n \in 1..Len(AfterTowers) |-> Walked(AfterTowers[n])],
                                  LAMBDA e : e.Health > 0 /\ e.PathIndex < LastIndex)]_vars



\* C40: the fallback decision for r resources is a wave only if r >= 200,
\* which covers the wave cost at every wave number, a tank only if r >= 50,
\* a fast enemy only if r >= 30, a basic one only if r >= 20, and save
\* exactly when r < 20; applying it succeeds.
C40_FallbackAffordable ==
    [][lastOp'.name = "getFallbackEnemyDecision"
       => LET r == Resources["gemini"]
              k == lastOp'.kind
          IN  /\ k = "wave" => (r >= 200 /\ r >= waveCostOf(Wave))
              /\ k = "tank" => r >= 50
              /\ k = "fast" => r >= 30
              /\ k = "basic" => r >= 20
              /\ k = "save" <=> r < 20
              /\ ret' = TRUE
              /\ Resources'["gemini"] >= 0
              /\ k # "save" => Resources'["gemini"] < r]_vars

\* at wave 32, where a wave costs 200, the fallback for 200 resources was a
\* wave and spawnWave accepted it: nothing is left and 30 enemies are queued
C40_Witness ==
    /\ lastOp = Op("getFallbackEnemyDecision", 0, 0, "wave")
    /\ ret = TRUE /\ Wave = 32
    /\ Resources["gemini"] = 0 /\ Len(WaveQueue) = 30



\* C39: the attacker's resources never grow: each step leaves them alone or
\* takes the price of one enemy or of one wave from them, so they stay
\* between 0 and the initial 300 and everything the attacker ever buys costs
\* at most 300 together.
C39_AttackerEconomy ==
    /\ [](Resources["gemini"] >= 0 /\ Resources["gemini"] <= InitialResources)
    /\ [][\/ Resources'["gemini"] = Resources["gemini"]
          \/ /\ Resources'["gemini"] < Resources["gemini"]
             /\ Resources["gemini"] - Resources'["gemini"]
                   \in {enemyCosts(k) : k \in EnemyKinds} \cup {waveCostOf(Wave)}]_vars

\* the attacker has bought a wave and a basic enemy, and ticks have run
C39_Witness ==
    /\ Resources["gemini"] = InitialResources - waveCostOf(1) - enemyCosts("basic")
    /\ ticks >= 2
    /\ Len(Enemies) + Len(WaveQueue) > 0



\* C36: no update of the defender's resources is lost: whenever no tick is
\* under way they are the initial 300, less the cost of every tower built,
\* plus every kill reward credited (the defender's score).
C36_DefenderResourcesConserved ==
    tpc # "store"
    => Resources["chatgpt"]
          = InitialResources - SpentOnTowers(Towers, 1) + Score["chatgpt"]



\* the wave number is the one NewGame set and the defender has not won
WaveNeverAdvances == Wave = NewGame.Wave /\ Winner # "chatgpt"

\* C32: the game started by NewGame comes to a state where the wave number
\* has reached MaxWaves, the field and the wave queue are empty and
\* UpdateGameState has ended the game with the defender as the winner.
C32_DefenderVictoryReached ==
    <>(/\ Wave >= MaxWaves /\ Len(Enemies) = 0 /\ Len(WaveQueue) = 0
       /\ GameOver /\ Winner = "chatgpt")

====
